---- MODULE Spec2Model ----
(***************************************************************************)
(* Bar-by-bar backtesting engine (src/backtester.py) with its cost model   *)
(* (src/transaction_costs.py), pip calculator (src/modules/                *)
(* pip_calculator.py) and risk gate (src/modules/risk_management.py).      *)
(*                                                                         *)
(* Fixed-point representation of the Python floats:                        *)
(*   prices      integer pips (EUR_USD 1.0850 = 10850, pip = 0.0001)       *)
(*   sizes       signed lots, 1 lot = 10000 units (units = 10000 * lots)   *)
(*   money       integer 1/10000 USD (suffix 4), margins 1/100000 USD      *)
(*   time        integer days since the first bar                          *)
(* Comparisons of quotients are done exactly on the fractions.             *)
(***************************************************************************)
EXTENDS Integers, Sequences, FiniteSets, TLC

\* ------------------------------------------------------------------ bounds
MaxBars == 3

\* ----------------------------------------------------------- arithmetic
Abs(x) == IF x < 0 THEN -x ELSE x

Money == 10000

RECURSIVE FracGE(_, _, _, _)
\* a/b >= c/d for a, c >= 0 and b, d > 0, without forming a*d or c*b.
FracGE(a, b, c, d) ==
    LET qa == a \div b
        qc == c \div d
        ra == a % b
        rc == c % d
    IN IF qa # qc THEN qa > qc
       ELSE IF rc = 0 THEN TRUE
       ELSE IF ra = 0 THEN FALSE
       ELSE FracGE(d, rc, b, ra)

RatLE(a, b, c, d) == FracGE(c, d, a, b)

\* ------------------------------------------------ transaction_costs.py
\* spreads and slippage in 1/100 pip, swaps and pip_value in cents per lot
COST_PROFILES ==
    [ EUR_USD |-> [base_spread |-> 80,  min_spread |-> 50,  max_spread |-> 200,
                   slippage_avg |-> 50, swap_long |-> -50, swap_short |-> 20,
                   pip_value |-> 100],
      GBP_USD |-> [base_spread |-> 120, min_spread |-> 80,  max_spread |-> 300,
                   slippage_avg |-> 70, swap_long |-> -60, swap_short |-> 25,
                   pip_value |-> 100],
      USD_JPY |-> [base_spread |-> 70,  min_spread |-> 40,  max_spread |-> 200,
                   slippage_avg |-> 50, swap_long |-> -30, swap_short |-> -10,
                   pip_value |-> 91],
      AUD_USD |-> [base_spread |-> 100, min_spread |-> 60,  max_spread |-> 250,
                   slippage_avg |-> 60, swap_long |-> -40, swap_short |-> 15,
                   pip_value |-> 100],
      USD_CAD |-> [base_spread |-> 120, min_spread |-> 70,  max_spread |-> 300,
                   slippage_avg |-> 60, swap_long |-> -45, swap_short |-> 18,
                   pip_value |-> 74],
      EUR_GBP |-> [base_spread |-> 150, min_spread |-> 100, max_spread |-> 350,
                   slippage_avg |-> 80, swap_long |-> -55, swap_short |-> 22,
                   pip_value |-> 127] ]

MarketConditions == {"quiet", "normal", "volatile", "extreme"}

\* profile lookup with the EUR_USD fallback of calculate_trade_costs
GetProfile(instrument) ==
    IF instrument \in DOMAIN COST_PROFILES
    THEN COST_PROFILES[instrument]
    ELSE COST_PROFILES["EUR_USD"]

\* spread in 1/100 pip
GetSpread(profile, condition) ==
    CASE condition = "quiet"    -> profile.min_spread
      [] condition = "normal"   -> profile.base_spread
      [] condition = "volatile" -> (profile.base_spread * 15) \div 10
      [] OTHER                  -> profile.max_spread

\* slippage in 1/100 pip
GetSlippage(profile, condition) ==
    CASE condition = "quiet"    -> (profile.slippage_avg * 7) \div 10
      [] condition = "normal"   -> profile.slippage_avg
      [] condition = "volatile" -> profile.slippage_avg * 2
      [] OTHER                  -> profile.slippage_avg * 3

\* swap in 1/10000 USD; the sign of units selects the side
GetSwapCost(profile, units, hold_days) ==
    IF hold_days = 0 THEN 0
    ELSE LET swap_rate == IF units > 0 THEN profile.swap_long
                          ELSE profile.swap_short
         IN swap_rate * 100 * Abs(units) * hold_days

\* the position size keeps its sign in the conversion to lots
CalculateTradeCostsSignedLots(instrument, units, hold_days, market_condition, include_slippage) ==
    LET profile   == GetProfile(instrument)
        condition == IF market_condition \in MarketConditions
                     THEN market_condition ELSE "normal"
        spread_cost_pips   == GetSpread(profile, condition) * 2
        slippage_cost_pips == IF include_slippage
                              THEN GetSlippage(profile, condition) * 2 ELSE 0
        swap_cost_usd      == GetSwapCost(profile, units, hold_days)
        lots               == units
        spread_cost_usd    == spread_cost_pips * profile.pip_value * lots
        slippage_cost_usd  == slippage_cost_pips * profile.pip_value * lots
    IN [ spread_cost_usd   |-> spread_cost_usd,
         slippage_cost_usd |-> slippage_cost_usd,
         swap_cost_usd     |-> swap_cost_usd,
         total_cost_usd    |-> spread_cost_usd + slippage_cost_usd
                               + swap_cost_usd,
         pip_value         |-> profile.pip_value ]

\* calculate_trade_costs: the cost fields the engine reads, in 1/10000 USD
CalculateTradeCosts(instrument, units, hold_days, market_condition, include_slippage) ==
    LET profile   == GetProfile(instrument)
        condition == IF market_condition \in MarketConditions
                     THEN market_condition ELSE "normal"
        spread_cost_pips   == GetSpread(profile, condition) * 2
        slippage_cost_pips == IF include_slippage
                              THEN GetSlippage(profile, condition) * 2 ELSE 0
        swap_cost_usd      == GetSwapCost(profile, units, hold_days)
        lots               == Abs(units)
        spread_cost_usd    == spread_cost_pips * profile.pip_value * lots
        slippage_cost_usd  == slippage_cost_pips * profile.pip_value * lots
    IN [ spread_cost_usd   |-> spread_cost_usd,
         slippage_cost_usd |-> slippage_cost_usd,
         swap_cost_usd     |-> swap_cost_usd,
         total_cost_usd    |-> spread_cost_usd + slippage_cost_usd
                               + swap_cost_usd,
         pip_value         |-> profile.pip_value ]

\* ------------------------------------------------- pip_calculator.py
\* instrument.split("_")
Pairs ==
    [ EUR_USD |-> [base |-> "EUR", quote |-> "USD"],
      GBP_USD |-> [base |-> "GBP", quote |-> "USD"],
      USD_JPY |-> [base |-> "USD", quote |-> "JPY"],
      AUD_USD |-> [base |-> "AUD", quote |-> "USD"],
      USD_CAD |-> [base |-> "USD", quote |-> "CAD"],
      EUR_GBP |-> [base |-> "EUR", quote |-> "GBP"],
      NZD_USD |-> [base |-> "NZD", quote |-> "USD"] ]

\* pip location in 1/10000 of the quote currency
GetPipLocation(currency) ==
    IF currency \in {"JPY", "HUF"} THEN 100 ELSE 1

\* calculate_pip_value with conversion_rates = None; the rate is the
\* fraction rate_num / rate_den pips; the result is in 1/10000 USD
CalculatePipValue(instrument, account_currency, rate_num, rate_den, units) ==
    LET base_currency  == Pairs[instrument].base
        quote_currency == Pairs[instrument].quote
        pip_location   == GetPipLocation(quote_currency)
    IN IF account_currency = quote_currency
       THEN pip_location * units * Money
       ELSE IF account_currency = base_currency
       THEN (units * Money * Money * rate_den) \div rate_num
       ELSE pip_location * units * Money

\* calculate_pip_value_from_price_diff: pips and P&L (1/10000 USD); the
\* direction is read from the sign of units
CalculatePnl(instrument, entry_price, exit_price, units) ==
    LET price_diff == IF units < 0 THEN -(exit_price - entry_price)
                      ELSE exit_price - entry_price
        pips       == price_diff
        pip_value  == CalculatePipValue(instrument, "USD",
                          entry_price + exit_price, 2, Abs(units))
    IN [ direction |-> IF units > 0 THEN "long" ELSE "short",
         pips      |-> pips,
         pip_value |-> pip_value,
         pnl       |-> pips * pip_value ]

\* ------------------------------------------------- risk_management.py
\* PositionInfo: units in lots, unrealized_pnl in 1/10000 USD, margin_used
\* in 1/100000 USD
MARGIN_RATE == 3333

RECURSIVE SumExposure(_)
\* sum(abs(p.units) * 1.0 for p in existing_positions), in USD
SumExposure(ps) ==
    IF ps = << >> THEN 0
    ELSE Abs(Head(ps).units) * 10000 + SumExposure(Tail(ps))

RECURSIVE SumMarginUsed(_)
SumMarginUsed(ps) ==
    IF ps = << >> THEN 0 ELSE Head(ps).margin_used + SumMarginUsed(Tail(ps))

RECURSIVE SumUnrealized(_)
SumUnrealized(ps) ==
    IF ps = << >> THEN 0 ELSE Head(ps).unrealized_pnl + SumUnrealized(Tail(ps))

\* abs(new_position_units) * current_price, in USD
PositionValue(instrument, units, price) ==
    Abs(units) * price * GetPipLocation(Pairs[instrument].quote)

\* _check_leverage: total_exposure / account_balance <= max_leverage
CheckLeverage(rm, account_balance, new_position_value, existing_positions) ==
    LET existing_exposure == SumExposure(existing_positions)
        total_exposure    == existing_exposure + new_position_value
    IN [ passed |-> IF account_balance > 0
                    THEN RatLE(total_exposure, account_balance,
                               rm.max_leverage, Money)
                    ELSE 999 <= rm.max_leverage,
         high   |-> IF account_balance > 0
                    THEN ~RatLE(total_exposure * 10, account_balance,
                                rm.max_leverage * 8, Money)
                    ELSE 9990 > rm.max_leverage * 8,
         total_exposure |-> total_exposure ]

\* _check_risk_per_trade: max_loss / account_balance * 100 <= limit
CheckRiskPerTrade(rm, account_balance, position_units, stop_loss_pips, pip_value) ==
    LET lots     == Abs(position_units)
        max_loss == stop_loss_pips * pip_value * lots
    IN [ passed |-> IF account_balance > 0
                    THEN RatLE(max_loss, account_balance,
                               rm.max_risk_per_trade, 100)
                    ELSE 999 <= rm.max_risk_per_trade,
         max_loss |-> max_loss ]

\* _check_total_exposure: total_exposure / account_balance <= ratio limit
CheckTotalExposure(rm, account_balance, new_position_value, existing_positions) ==
    LET existing_exposure == SumExposure(existing_positions)
        total_exposure    == existing_exposure + new_position_value
    IN [ passed |-> IF account_balance > 0
                    THEN RatLE(total_exposure, account_balance,
                               rm.max_total_exposure_ratio, Money)
                    ELSE 999 <= rm.max_total_exposure_ratio,
         total_exposure |-> total_exposure ]

\* margin_level >= level, margin_level = equity / total * 100 or 999
MarginLevelGE(equity5, total5, level_num, level_den) ==
    IF total5 > 0
    THEN IF equity5 < 0 THEN FALSE
         ELSE FracGE(equity5, total5, level_num, 100 * level_den)
    ELSE 999 * level_den >= level_num

\* _check_margin_requirement
CheckMarginRequirement(rm, account_balance, new_position_value, existing_positions, margin_rate) ==
    LET used_margin           == SumMarginUsed(existing_positions)
        new_margin_required   == new_position_value * margin_rate
        total_margin_required == used_margin + new_margin_required
        unrealized_pnl        == SumUnrealized(existing_positions)
        equity                == account_balance + unrealized_pnl
        free_margin           == equity * 10 - used_margin
    IN [ passed |-> /\ free_margin >= new_margin_required
                    /\ MarginLevelGE(equity * 10, total_margin_required,
                                     rm.min_margin_level, 1),
         level_ok |-> MarginLevelGE(equity * 10, total_margin_required,
                                    rm.min_margin_level, 1),
         low    |-> ~MarginLevelGE(equity * 10, total_margin_required,
                                   rm.min_margin_level * 3, 2),
         free_margin     |-> free_margin,
         required_margin |-> new_margin_required,
         equity          |-> equity ]

\* _check_position_sanity
CheckPositionSanity(instrument, position_units, account_balance, current_price) ==
    LET position_value == PositionValue(instrument, position_units,
                                        current_price)
    IN [ passed |-> ~(position_value < 100)
                    /\ RatLE(position_value, 100, account_balance, Money) ]

RejectLeverage == "Leverage limit exceeded"
RejectRisk     == "Risk per trade exceeded"
RejectExposure == "Total exposure exceeded"
RejectMargin   == "Insufficient margin"
AllPassed      == "All risk checks passed"

\* nothing is checked after the leverage
ValidatePositionLeverageOnly(rm, account_balance, new_position_units, instrument, current_price, stop_loss_pips, pip_value, existing_positions, margin_rate) ==
    LET position_value == PositionValue(instrument, new_position_units,
                                        current_price)
        leverage_check == CheckLeverage(rm, account_balance, position_value,
                                        existing_positions)
    IN IF ~leverage_check.passed
       THEN [ allowed |-> FALSE, reason |-> RejectLeverage,
              checks |-> [n \in {"leverage"} |-> FALSE],
              warnings |-> {} ]
       ELSE [ allowed |-> TRUE, reason |-> AllPassed,
              checks |-> [n \in {"leverage"} |-> TRUE],
              warnings |-> {} ]

\* every check is run and recorded, whatever failed before it
ValidatePositionAllChecks(rm, account_balance, new_position_units, instrument, current_price, stop_loss_pips, pip_value, existing_positions, margin_rate) ==
    LET position_value == PositionValue(instrument, new_position_units,
                                        current_price)
        leverage_check == CheckLeverage(rm, account_balance, position_value,
                                        existing_positions)
        risk_check     == CheckRiskPerTrade(rm, account_balance,
                              new_position_units, stop_loss_pips, pip_value)
        exposure_check == CheckTotalExposure(rm, account_balance,
                              position_value, existing_positions)
        margin_check   == CheckMarginRequirement(rm, account_balance,
                              position_value, existing_positions, margin_rate)
        all == [n \in {"leverage", "risk_per_trade", "exposure", "margin"} |->
                   IF n = "leverage" THEN leverage_check.passed
                   ELSE IF n = "risk_per_trade" THEN risk_check.passed
                   ELSE IF n = "exposure" THEN exposure_check.passed
                   ELSE margin_check.passed]
    IN [ allowed  |-> \A n \in DOMAIN all : all[n],
         reason   |-> IF ~leverage_check.passed THEN RejectLeverage
                      ELSE IF ~risk_check.passed THEN RejectRisk
                      ELSE IF ~exposure_check.passed THEN RejectExposure
                      ELSE IF ~margin_check.passed THEN RejectMargin
                      ELSE AllPassed,
         checks   |-> all,
         warnings |-> {} ]

\* validate_position: checks maps the name of every check that was run to
\* whether it passed
ValidatePosition(rm, account_balance, new_position_units, instrument, current_price, stop_loss_pips, pip_value, existing_positions, margin_rate) ==
    LET position_value == PositionValue(instrument, new_position_units,
                                        current_price)
        leverage_check == CheckLeverage(rm, account_balance, position_value,
                                        existing_positions)
        risk_check     == CheckRiskPerTrade(rm, account_balance,
                              new_position_units, stop_loss_pips, pip_value)
        exposure_check == CheckTotalExposure(rm, account_balance,
                              position_value, existing_positions)
        margin_check   == CheckMarginRequirement(rm, account_balance,
                              position_value, existing_positions, margin_rate)
        sanity_check   == CheckPositionSanity(instrument, new_position_units,
                              account_balance, current_price)
        w1 == IF leverage_check.high THEN {"High leverage"} ELSE {}
        w2 == IF margin_check.low THEN {"Low margin level"} ELSE {}
        w3 == IF sanity_check.passed THEN {} ELSE {"Position size unusual"}
    IN IF ~leverage_check.passed
       THEN [ allowed |-> FALSE, reason |-> RejectLeverage,
              checks |-> [n \in {"leverage"} |-> FALSE],
              warnings |-> {} ]
       ELSE IF ~risk_check.passed
       THEN [ allowed |-> FALSE, reason |-> RejectRisk,
              checks |-> [n \in {"leverage", "risk_per_trade"} |->
                             n = "leverage"],
              warnings |-> w1 ]
       ELSE IF ~exposure_check.passed
       THEN [ allowed |-> FALSE, reason |-> RejectExposure,
              checks |-> [n \in {"leverage", "risk_per_trade", "exposure"} |->
                             n # "exposure"],
              warnings |-> w1 ]
       ELSE IF ~margin_check.passed
       THEN [ allowed |-> FALSE, reason |-> RejectMargin,
              checks |-> [n \in {"leverage", "risk_per_trade", "exposure",
                                 "margin"} |-> n # "margin"],
              warnings |-> w1 ]
       ELSE [ allowed |-> TRUE, reason |-> AllPassed,
              checks |-> [n \in {"leverage", "risk_per_trade", "exposure",
                                 "margin", "sanity"} |->
                             IF n = "sanity" THEN sanity_check.passed
                             ELSE TRUE],
              warnings |-> w1 \cup w2 \cup w3 ]

\* ------------------------------------------------------- backtester.py
\* Input data.  A bar is one row of self.data; the bid series moves between
\* three levels and the ask series lies SpreadPips above it.
SpreadPips == 2
StopDistance == 15
MID == 10850 - SpreadPips
LO  == MID + SpreadPips - StopDistance
HI  == MID + SpreadPips + StopDistance

BarShapes ==
    { [bid_low |-> MID, bid_close |-> MID, bid_high |-> MID],
      [bid_low |-> LO,  bid_close |-> MID, bid_high |-> MID],
      [bid_low |-> MID, bid_close |-> MID, bid_high |-> HI],
      [bid_low |-> LO,  bid_close |-> MID, bid_high |-> HI],
      [bid_low |-> LO,  bid_close |-> LO,  bid_high |-> MID],
      [bid_low |-> LO,  bid_close |-> HI,  bid_high |-> HI] }

\* days between two consecutive rows (daily and weekly candles)
Granularities == {1, 7}

Instruments == {"EUR_USD"}

Candle(instr, t, shape) ==
    [ time |-> t, instrument |-> instr,
      bid_low  |-> shape.bid_low,  bid_high |-> shape.bid_high,
      bid_close |-> shape.bid_close,
      ask_low  |-> shape.bid_low + SpreadPips,
      ask_high |-> shape.bid_high + SpreadPips,
      ask_close |-> shape.bid_close + SpreadPips ]

\* The strategy signal function, a deterministic function of
\* (recent_data, current_candle): it raises when it is handed exactly
\* raises_at rows, otherwise answers with its action on every bar.
RaiseValue    == [action |-> "RAISE"]

StrategyFunc(f, recent_data, current_candle) ==
    IF f.raises_at # 0 /\ Len(recent_data) = f.raises_at THEN RaiseValue
    ELSE IF f.action \notin {"BUY", "SELL"} THEN [action |-> f.action]
    ELSE LET ref == IF f.action = "BUY" THEN current_candle.ask_close
                    ELSE current_candle.bid_close
             sgn == IF f.action = "BUY" THEN 1 ELSE -1
         IN IF f.has_stops
            THEN [ action |-> f.action, units |-> f.units, has_stops |-> TRUE,
                   stop_loss   |-> ref - sgn * f.stop_distance,
                   take_profit |-> ref + sgn * f.target_distance ]
            ELSE [ action |-> f.action, units |-> f.units, has_stops |-> FALSE,
                   stop_loss |-> 0, take_profit |-> 0 ]

Strategies ==
    { [action |-> a, units |-> 0, has_stops |-> FALSE, stop_distance |-> 0,
       target_distance |-> 0, raises_at |-> r] :
          a \in {"NONE", "CLOSE"}, r \in {0, 2} }
    \cup
    { [action |-> "BUY", units |-> u, has_stops |-> TRUE,
       stop_distance |-> StopDistance, target_distance |-> StopDistance,
       raises_at |-> 0] :
          u \in {1, 2, 5} }
    \cup
    { [action |-> "BUY", units |-> 1, has_stops |-> h,
       stop_distance |-> StopDistance, target_distance |-> StopDistance,
       raises_at |-> r] :
          h \in BOOLEAN, r \in {0, 2} }
    \cup
    { [action |-> "SELL", units |-> u, has_stops |-> TRUE,
       stop_distance |-> StopDistance + 2 * SpreadPips,
       target_distance |-> StopDistance - 2 * SpreadPips,
       raises_at |-> 0] :
          u \in {1, -1} }

Lookback == 100

VARIABLES
    data,                    \* self.data, the rows loaded so far
    instrument,              \* the instrument column of the data
    granularity,             \* days between two rows of the data
    initial_balance, max_positions, use_realistic_costs,
    enable_risk_management, risk_manager,
    strategy_func, time_limit_hours, max_hold_bars,   \* arguments of run
    current_balance, trades, open_positions, equity_curve,
    pc,                      \* position inside run
    i,                       \* loop index of run, 0-based
    snapshot, k,             \* the copied list being iterated and its cursor
    validation,              \* result of the last validate_position call
    results,                 \* value returned by run
    raised,                  \* exception that left run, "" if none
    next_id,                 \* identity of the next OpenPosition object
    run_no, previous,        \* number of the run and what the last one returned
    rm_args,                 \* arguments of a direct validate_position call
    raw,                     \* the rows handed to the loader, as given
    cost_call,               \* a direct call of calculate_trade_costs
    optimizer,               \* WalkForwardOptimizer: months of train, test, step
    perf,                    \* what a backtest of each grid entry returns
    windows, window_no,      \* self.windows and the window being optimized
    grid_i,                  \* loop index over param_grid, 1-based
    best_result,             \* best_result / best_fitness of optimize_window
    train_data, test_data,   \* the two slices of optimize_window (bar times)
    wf_results,              \* the optimized windows
    grid_search,             \* what ParameterOptimizer._grid_search returned
    strategy_call,           \* the calls of strategy_func on the current bar
    analysis,                \* what analyze_results reported
    journal,                 \* the closed trades of the trade journal
    po_args,                 \* arguments of ParameterOptimizer.optimize
    po_windows, period_no,   \* its windows and the period being optimized
    period_results,          \* the periods that produced a result
    po_output                \* what optimize returned or raised

\* state outside the engine's own fields, untouched by run
walk == << optimizer, perf, windows, window_no, grid_i, best_result,
          train_data, test_data, wf_results, grid_search, analysis >>

\* state of ParameterOptimizer.optimize
po == << journal, po_args, po_windows, period_no, period_results,
        po_output >>

aux == << raw, cost_call, walk, strategy_call, po >>

vars == << data, instrument, granularity, initial_balance, max_positions,
           use_realistic_costs, enable_risk_management, risk_manager,
           strategy_func, time_limit_hours, max_hold_bars,
           current_balance, trades, open_positions, equity_curve,
           pc, i, snapshot, k, validation, results, raised, next_id,
           run_no, previous, rm_args, aux >>

config == << instrument, granularity, initial_balance, max_positions,
             use_realistic_costs, enable_risk_management, risk_manager,
             strategy_func, time_limit_hours, max_hold_bars >>

NoValidation == [allowed |-> FALSE, reason |-> "", checks |-> << >>,
                 warnings |-> {}]
NoResults    == [returned |-> FALSE]
NoArgs       == [called |-> FALSE]

\* the fields a dataclass compares; id and entry_bar are the object's
\* identity and the index of the bar it was created on
PositionFields(p) ==
    [ entry_time |-> p.entry_time, instrument |-> p.instrument,
      direction |-> p.direction, units |-> p.units,
      entry_price |-> p.entry_price, stop_loss |-> p.stop_loss,
      take_profit |-> p.take_profit ]

\* drops the last element instead of the given one
ListRemovePop(s, x) == SubSeq(s, 1, Len(s) - 1)

RECURSIVE ListRemove(_, _)
\* list.remove(x): drops the first element equal to x
ListRemove(s, x) ==
    IF s = << >> THEN << >>
    ELSE IF PositionFields(Head(s)) = PositionFields(x) THEN Tail(s)
    ELSE << Head(s) >> \o ListRemove(Tail(s), x)

CurrentCandle == data[i + 1]

\* strict comparison at the stop
StopHitStrict(pos, candle) ==
    IF pos.direction = "BUY" THEN candle.bid_low < pos.stop_loss
    ELSE candle.ask_high > pos.stop_loss

\* exit triggers of _update_open_positions on one position and one candle
StopHit(pos, candle) ==
    IF pos.direction = "BUY" THEN candle.bid_low <= pos.stop_loss
    ELSE candle.ask_high >= pos.stop_loss

TargetHit(pos, candle) ==
    IF pos.direction = "BUY" THEN candle.bid_high >= pos.take_profit
    ELSE candle.ask_low <= pos.take_profit

TimeHit(pos, candle, limit_hours) ==
    limit_hours # 0 /\ (candle.time - pos.entry_time) * 24 >= limit_hours

\* the target is looked at before the stop
ExitReasonTargetFirst(pos, candle, limit_hours) ==
    IF TargetHit(pos, candle) THEN "TP"
    ELSE IF StopHit(pos, candle) THEN "SL"
    ELSE IF TimeHit(pos, candle, limit_hours) THEN "TIME"
    ELSE ""

\* the reason _update_open_positions closes pos with, "" to keep it open
ExitReason(pos, candle, limit_hours) ==
    IF StopHit(pos, candle) THEN "SL"
    ELSE IF TargetHit(pos, candle) THEN "TP"
    ELSE IF TimeHit(pos, candle, limit_hours) THEN "TIME"
    ELSE ""

\* the Trade record _close_position builds; pid, entry_bar and exit_bar tell
\* which object was closed and on which rows it was opened and closed
MakeTrade(position, candle, reason, realistic_costs, bar) ==
    LET exit_price == IF position.direction = "BUY" THEN candle.bid_close
                      ELSE candle.ask_close
        pnl_result == CalculatePnl(position.instrument, position.entry_price,
                                   exit_price, position.units)
        hold_days  == candle.time - position.entry_time
        costs      == IF realistic_costs
                      THEN CalculateTradeCosts(position.instrument,
                               position.units, hold_days,
                               "normal", TRUE).total_cost_usd
                      ELSE 0
    IN [ pid |-> position.id, entry_bar |-> position.entry_bar,
         exit_bar |-> bar,
         entry_time |-> position.entry_time, exit_time |-> candle.time,
         instrument |-> position.instrument,
         direction |-> position.direction, units |-> position.units,
         entry_price |-> position.entry_price, exit_price |-> exit_price,
         stop_loss |-> position.stop_loss,
         take_profit |-> position.take_profit,
         gross_pnl |-> pnl_result.pnl, costs |-> costs,
         net_pnl |-> pnl_result.pnl - costs, pips |-> pnl_result.pips,
         hold_days |-> hold_days, exit_reason |-> reason ]

\* the balance moves by the gross P&L, the costs are left out
ClosePositionGross(position, candle, reason, bar) ==
    LET trade == MakeTrade(position, candle, reason, use_realistic_costs, bar)
    IN /\ current_balance' = current_balance + trade.gross_pnl
       /\ trades' = Append(trades, trade)
       /\ open_positions' = ListRemove(open_positions, position)

\* _close_position
ClosePosition(position, candle, reason, bar) ==
    LET trade == MakeTrade(position, candle, reason, use_realistic_costs, bar)
    IN /\ current_balance' = current_balance + trade.net_pnl
       /\ trades' = Append(trades, trade)
       /\ open_positions' = ListRemove(open_positions, position)

RECURSIVE UnrealizedPnl(_, _)
UnrealizedPnl(ps, candle) ==
    IF ps = << >> THEN 0
    ELSE LET pos == Head(ps)
             current_price == IF pos.direction = "BUY" THEN candle.bid_close
                              ELSE candle.ask_close
         IN CalculatePnl(pos.instrument, pos.entry_price, current_price,
                         pos.units).pnl
            + UnrealizedPnl(Tail(ps), candle)

\* _calculate_equity
CalculateEquity(balance, ps, candle) == balance + UnrealizedPnl(ps, candle)

RECURSIVE CountWins(_)
CountWins(ts) ==
    IF ts = << >> THEN 0
    ELSE (IF Head(ts).net_pnl > 0 THEN 1 ELSE 0) + CountWins(Tail(ts))

RECURSIVE SumCosts(_)
SumCosts(ts) == IF ts = << >> THEN 0 ELSE Head(ts).costs + SumCosts(Tail(ts))

NoTradesMarker == "No trades executed"

\* the empty trade list is not told apart
CalculateResultsNoMarker(ts, balance, initial) ==
    [ returned |-> TRUE, final_balance |-> balance,
      total_return |-> ((balance - initial) * 100) \div (initial \div 100),
      total_trades |-> Len(ts),
      winning_trades |-> CountWins(ts),
      losing_trades |-> Len(ts) - CountWins(ts),
      win_rate |-> IF ts = << >> THEN 0
                   ELSE (CountWins(ts) * 100) \div Len(ts),
      total_costs |-> SumCosts(ts) ]

\* _calculate_results: the exactly representable fields (total_return in
\* 1/100 percent, win_rate in percent, both rounded down)
CalculateResults(ts, balance, initial) ==
    IF ts = << >>
    THEN [ returned |-> TRUE, final_balance |-> balance, total_return |-> 0,
           total_trades |-> 0, win_rate |-> 0, error |-> NoTradesMarker ]
    ELSE [ returned |-> TRUE, final_balance |-> balance,
           total_return |-> ((balance - initial) * 100) \div (initial \div 100),
           total_trades |-> Len(ts),
           winning_trades |-> CountWins(ts),
           losing_trades |-> Len(ts) - CountWins(ts),
           win_rate |-> (CountWins(ts) * 100) \div Len(ts),
           total_costs |-> SumCosts(ts) ]

\* the PositionInfo list _open_position builds from the open positions
ExistingPositions(ps, entry_price, instr) ==
    [ n \in 1..Len(ps) |->
        [ instrument |-> ps[n].instrument, units |-> ps[n].units,
          unrealized_pnl |-> 0,
          margin_used |-> PositionValue(instr, ps[n].units, entry_price)
                          * MARGIN_RATE ] ]

\* pip size the engine itself uses for the stop distance
EnginePipLocation(instr) ==
    IF Pairs[instr].quote = "JPY" THEN 100 ELSE 1

\* entry price and stop levels of _open_position
EntryPrice(signal, candle) ==
    IF signal.action = "BUY" THEN candle.ask_close ELSE candle.bid_close

EntryStop(signal, entry_price) ==
    IF signal.has_stops THEN signal.stop_loss
    ELSE IF signal.action = "BUY" THEN (entry_price * 99) \div 100
    ELSE (entry_price * 101) \div 100

EntryTarget(signal, entry_price) ==
    IF signal.has_stops THEN signal.take_profit
    ELSE IF signal.action = "BUY" THEN (entry_price * 1015) \div 1000
    ELSE (entry_price * 985) \div 1000

\* the validate_position call of _open_position
GateCall(signal, candle, balance, ps) ==
    LET instr       == candle.instrument
        entry_price == EntryPrice(signal, candle)
        stop_loss   == EntryStop(signal, entry_price)
        pip_value   == CalculatePipValue(instr, "USD", entry_price, 1,
                                         Abs(signal.units))
        stop_pips   == (Abs(entry_price - stop_loss)
                        * GetPipLocation(Pairs[instr].quote))
                       \div EnginePipLocation(instr)
    IN ValidatePosition(risk_manager, balance, signal.units, instr,
                        entry_price, stop_pips, pip_value,
                        ExistingPositions(ps, entry_price, instr),
                        MARGIN_RATE)

\* the max_loss _check_risk_per_trade computes from what _open_position
\* hands to validate_position, in 1/10000 USD
GateMaxLoss(signal, candle, balance) ==
    LET instr       == candle.instrument
        entry_price == EntryPrice(signal, candle)
        stop_loss   == EntryStop(signal, entry_price)
        pip_value   == CalculatePipValue(instr, "USD", entry_price, 1,
                                         Abs(signal.units))
        stop_pips   == (Abs(entry_price - stop_loss)
                        * GetPipLocation(Pairs[instr].quote))
                       \div EnginePipLocation(instr)
    IN CheckRiskPerTrade(risk_manager, balance, signal.units, stop_pips,
                         pip_value).max_loss

NewPosition(signal, candle, id, bar) ==
    LET entry_price == EntryPrice(signal, candle)
    IN [ id |-> id, entry_bar |-> bar,
         entry_time |-> candle.time, instrument |-> candle.instrument,
         direction |-> signal.action, units |-> signal.units,
         entry_price |-> entry_price,
         stop_loss |-> EntryStop(signal, entry_price),
         take_profit |-> EntryTarget(signal, entry_price) ]

\* recent_data = self.data.iloc[max(0, i - lookback) : i + 1]
\* every bar up to the current one, without the cap of 100
RecentDataWholeHistory == SubSeq(data, 1, i + 1)

\* lookback = min(i, 100); recent_data = self.data.iloc[max(0, i - lookback):i+1]
RecentData ==
    LET lookback == IF i < Lookback THEN i ELSE Lookback
        first    == IF i - lookback > 0 THEN i - lookback ELSE 0
    IN SubSeq(data, first + 1, i + 1)

Signal == StrategyFunc(strategy_func, RecentData, CurrentCandle)

\* signal = strategy_func(recent_data, current_candle): what the call on
\* bar i was handed, and how many positions were open when it was made
StrategyCall ==
    strategy_call' = [ n |-> strategy_call.n + 1, bar |-> i,
                       open |-> Len(open_positions),
                       recent_data |-> RecentData ]

\* ---------------------------------------------------------------- actions
\* no optimizer has been constructed
NoBest == [set |-> FALSE]

\* no call of strategy_func on this bar yet
NoCall == [n |-> 0, bar |-> 0, open |-> 0, recent_data |-> << >>]

\* ParameterOptimizer.optimize not called
PoIdle ==
    /\ journal = << >>
    /\ po_args = NoArgs
    /\ po_windows = << >>
    /\ period_no = 0
    /\ period_results = << >>
    /\ po_output = NoArgs

WalkIdle ==
    /\ optimizer = NoArgs
    /\ perf = << >>
    /\ windows = << >>
    /\ window_no = 0
    /\ grid_i = 0
    /\ best_result = NoBest
    /\ train_data = {}
    /\ test_data = {}
    /\ wf_results = << >>
    /\ grid_search = NoArgs
    /\ analysis = NoArgs

DefaultRiskManager(risk_per_trade) ==
    [ max_leverage |-> 20, max_risk_per_trade |-> risk_per_trade,
      max_total_exposure_ratio |-> 3, min_margin_level |-> 100 ]

\* Backtester.__init__ and the arguments run will be called with
Init ==
    /\ data = << >>
    /\ instrument \in Instruments
    /\ granularity \in Granularities
    /\ initial_balance = 10000 * Money
    /\ max_positions \in {1, 2}
    /\ use_realistic_costs \in BOOLEAN
    /\ enable_risk_management \in BOOLEAN
    /\ risk_manager = DefaultRiskManager(1)
    /\ strategy_func \in Strategies
    /\ time_limit_hours \in {0, 48}
    /\ max_hold_bars = 100
    /\ current_balance = initial_balance
    /\ trades = << >>
    /\ open_positions = << >>
    /\ equity_curve = << >>
    /\ pc = "init"
    /\ i = 0
    /\ snapshot = << >>
    /\ k = 0
    /\ validation = NoValidation
    /\ results = NoResults
    /\ raised = ""
    /\ next_id = 1
    /\ run_no = 0
    /\ previous = NoResults
    /\ rm_args = NoArgs
    /\ raw = << >>
    /\ cost_call = NoArgs
    /\ strategy_call = NoCall
    /\ PoIdle
    /\ WalkIdle

\* the loader hands over one more row: the first one before run, the later
\* ones when the loop of the first run reaches the end of what is known
LoadBar(shape) ==
    /\ run_no <= 1
    /\ \/ pc = "init" /\ data = << >>
       \/ pc = "loop" /\ i = Len(data)
    /\ Len(data) < MaxBars
    /\ data' = Append(data, Candle(instrument, Len(data) * granularity, shape))
    /\ UNCHANGED << config, current_balance, trades, open_positions,
                    equity_curve, pc, i, snapshot, k, validation, results,
                    raised, next_id, run_no, previous, rm_args, aux >>

\* run on no data
RunNoData ==
    /\ pc = "init"
    /\ data = << >>
    /\ pc' = "raised"
    /\ raised' = "ValueError"
    /\ UNCHANGED << data, config, current_balance, trades, open_positions,
                    equity_curve, i, snapshot, k, validation, results,
                    next_id, run_no, previous, rm_args, aux >>

\* the balance is carried over
ResetStateKeepBalance ==
    /\ current_balance' = current_balance
    /\ trades' = << >>
    /\ open_positions' = << >>
    /\ equity_curve' = << [time |-> data[1].time, equity |-> initial_balance] >>

\* state reset at the top of run
ResetState ==
    /\ current_balance' = initial_balance
    /\ trades' = << >>
    /\ open_positions' = << >>
    /\ equity_curve' = << [time |-> data[1].time, equity |-> initial_balance] >>

RunStart ==
    /\ pc = "init"
    /\ data # << >>
    /\ ResetState
    /\ pc' = "loop"
    /\ i' = 0
    /\ next_id' = 1
    /\ run_no' = run_no + 1
    /\ UNCHANGED << data, config, snapshot, k, validation, results, raised,
                    previous, rm_args, aux >>

\* top of one loop iteration: the open list is copied for the exit checks
BarStart ==
    /\ pc = "loop"
    /\ i < Len(data)
    /\ snapshot' = open_positions
    /\ k' = 1
    /\ pc' = IF open_positions = << >> THEN "signal" ELSE "update"
    /\ strategy_call' = NoCall
    /\ UNCHANGED << data, config, current_balance, trades, open_positions,
                    equity_curve, i, validation, results, raised, next_id,
                    run_no, previous, rm_args, raw, cost_call, walk,
                    po >>

\* one iteration of the loop of _update_open_positions
UpdatePosition ==
    /\ pc = "update"
    /\ k <= Len(snapshot)
    /\ LET pos    == snapshot[k]
           reason == ExitReason(pos, CurrentCandle, time_limit_hours)
       IN IF reason # ""
          THEN ClosePosition(pos, CurrentCandle, reason, i + 1)
          ELSE UNCHANGED << current_balance, trades, open_positions >>
    /\ k' = k + 1
    /\ pc' = IF k = Len(snapshot) THEN "signal" ELSE "update"
    /\ UNCHANGED << data, config, equity_curve, i, snapshot, validation,
                    results, raised, next_id, run_no, previous, rm_args, aux >>

HasCapacityOffByOne == Len(open_positions) <= max_positions

\* len(self.open_positions) < self.max_positions
HasCapacity == Len(open_positions) < max_positions

\* no free slot: the strategy is not asked
SkipSignal ==
    /\ pc = "signal"
    /\ ~HasCapacity
    /\ pc' = "equity"
    /\ UNCHANGED << data, config, current_balance, trades, open_positions,
                    equity_curve, i, snapshot, k, validation, results,
                    raised, next_id, run_no, previous, rm_args, aux >>

\* the strategy raises: nothing catches it, run is left by the exception
StrategyRaises ==
    /\ pc = "signal"
    /\ HasCapacity
    /\ StrategyCall
    /\ Signal.action = "RAISE"
    /\ pc' = "raised"
    /\ raised' = "StrategyError"
    /\ UNCHANGED << data, config, current_balance, trades, open_positions,
                    equity_curve, i, snapshot, k, validation, results,
                    next_id, run_no, previous, rm_args, raw,
                    cost_call, walk, po >>

\* the strategy answers None or an action other than BUY / SELL
NoSignal ==
    /\ pc = "signal"
    /\ HasCapacity
    /\ StrategyCall
    /\ Signal.action \notin {"RAISE", "BUY", "SELL"}
    /\ pc' = "equity"
    /\ UNCHANGED << data, config, current_balance, trades, open_positions,
                    equity_curve, i, snapshot, k, validation, results,
                    raised, next_id, run_no, previous, rm_args, raw,
                    cost_call, walk, po >>

\* the position is opened whatever the Risk Gate answered
OpenPositionIgnoreGate ==
    /\ pc = "signal"
    /\ HasCapacity
    /\ StrategyCall
    /\ Signal.action \in {"BUY", "SELL"}
    /\ validation' = IF enable_risk_management
                     THEN GateCall(Signal, CurrentCandle, current_balance,
                                   open_positions)
                     ELSE validation
    /\ open_positions' = Append(open_positions,
           NewPosition(Signal, CurrentCandle, next_id, i + 1))
    /\ next_id' = next_id + 1
    /\ pc' = "equity"
    /\ UNCHANGED << data, config, current_balance, trades, equity_curve, i,
                    snapshot, k, results, raised, run_no, previous, rm_args, raw,
                    cost_call, walk, po >>

\* _open_position on a BUY / SELL signal
OpenPosition ==
    /\ pc = "signal"
    /\ HasCapacity
    /\ StrategyCall
    /\ Signal.action \in {"BUY", "SELL"}
    /\ LET v == GateCall(Signal, CurrentCandle, current_balance,
                         open_positions)
       IN IF enable_risk_management
          THEN /\ validation' = v
               /\ IF v.allowed
                  THEN /\ open_positions' = Append(open_positions,
                              NewPosition(Signal, CurrentCandle, next_id,
                                          i + 1))
                       /\ next_id' = next_id + 1
                  ELSE UNCHANGED << open_positions, next_id >>
          ELSE /\ open_positions' = Append(open_positions,
                      NewPosition(Signal, CurrentCandle, next_id, i + 1))
               /\ next_id' = next_id + 1
               /\ UNCHANGED validation
    /\ pc' = "equity"
    /\ UNCHANGED << data, config, current_balance, trades, equity_curve, i,
                    snapshot, k, results, raised, run_no, previous, rm_args, raw,
                    cost_call, walk, po >>

\* the equity point of the bar; the loop index advances
RecordEquity ==
    /\ pc = "equity"
    /\ equity_curve' = Append(equity_curve,
           [ time |-> CurrentCandle.time,
             equity |-> CalculateEquity(current_balance, open_positions,
                                        CurrentCandle) ])
    /\ i' = i + 1
    /\ pc' = "loop"
    /\ UNCHANGED << data, config, current_balance, trades, open_positions,
                    snapshot, k, validation, results, raised, next_id,
                    run_no, previous, rm_args, aux >>

\* the loop is over: the remaining positions are copied for closing
LoopEnd ==
    /\ pc = "loop"
    /\ i = Len(data)
    /\ snapshot' = open_positions
    /\ k' = 1
    /\ pc' = "end"
    /\ UNCHANGED << data, config, current_balance, trades, open_positions,
                    equity_curve, i, validation, results, raised, next_id,
                    run_no, previous, rm_args, aux >>

\* one iteration of the closing loop at the end of run
EndClose ==
    /\ pc = "end"
    /\ k <= Len(snapshot)
    /\ ClosePosition(snapshot[k], data[Len(data)], "END", Len(data))
    /\ k' = k + 1
    /\ UNCHANGED << data, config, equity_curve, pc, i, snapshot, validation,
                    results, raised, next_id, run_no, previous, rm_args, aux >>

\* returns without waiting for the closing loop
FinishEarly ==
    /\ pc = "end"
    /\ results' = CalculateResults(trades, current_balance, initial_balance)
    /\ pc' = "done"
    /\ UNCHANGED << data, config, current_balance, trades, open_positions,
                    equity_curve, i, snapshot, k, validation, raised,
                    next_id, run_no, previous, rm_args, aux >>

\* run returns the results
Finish ==
    /\ pc = "end"
    /\ k > Len(snapshot)
    /\ results' = CalculateResults(trades, current_balance, initial_balance)
    /\ pc' = "done"
    /\ UNCHANGED << data, config, current_balance, trades, open_positions,
                    equity_curve, i, snapshot, k, validation, raised,
                    next_id, run_no, previous, rm_args, aux >>

Next ==
    \/ \E shape \in BarShapes : LoadBar(shape)
    \/ RunNoData
    \/ RunStart
    \/ BarStart
    \/ UpdatePosition
    \/ SkipSignal
    \/ StrategyRaises
    \/ NoSignal
    \/ OpenPosition
    \/ RecordEquity
    \/ LoopEnd
    \/ EndClose
    \/ Finish

Spec == Init /\ [][Next]_vars

\* ------------------------------------------- a second call of run
\* run is called again on the same instance with the same arguments; the
\* caller keeps what the first call produced
RunAgain ==
    /\ pc = "done"
    /\ run_no = 1
    /\ previous' = [ returned |-> TRUE, results |-> results,
                     trades |-> trades, equity_curve |-> equity_curve ]
    /\ ResetState
    /\ pc' = "loop"
    /\ i' = 0
    /\ next_id' = 1
    /\ run_no' = 2
    /\ UNCHANGED << data, config, snapshot, k, validation, results, raised,
                    rm_args, aux >>

InitRerun ==
    /\ Init
    /\ use_realistic_costs
    /\ time_limit_hours = 48

NextRerun == Next \/ RunAgain

SpecRerun == InitRerun /\ [][NextRerun]_vars

\* ------------------------------- validate_position called on its own
RiskLimits ==
    [ max_leverage : {20, 30}, max_risk_per_trade : {1, 3},
      max_total_exposure_ratio : {3, 30}, min_margin_level : {50, 100, 200} ]

RiskExisting ==
    { << >>,
      << [instrument |-> "EUR_USD", units |-> 1, unrealized_pnl |-> 0,
          margin_used |-> 10850 * MARGIN_RATE] >>,
      << [instrument |-> "EUR_USD", units |-> -2,
          unrealized_pnl |-> -(50 * Money),
          margin_used |-> 21700 * MARGIN_RATE] >>,
      << [instrument |-> "EUR_USD", units |-> 1,
          unrealized_pnl |-> -(4500 * Money),
          margin_used |-> 10850 * MARGIN_RATE] >> }

RiskArgs ==
    [ called : {TRUE},
      account_balance : {0, 5000 * Money, 10000 * Money},
      new_position_units : {1, -1, 5, 25},
      instrument : {"EUR_USD"},
      current_price : {10850},
      stop_loss_pips : {10, 25},
      pip_value : {1 * Money, 10 * Money},
      existing_positions : RiskExisting,
      margin_rate : {MARGIN_RATE} ]

Validate(rm, a) ==
    ValidatePosition(rm, a.account_balance, a.new_position_units,
                     a.instrument, a.current_price, a.stop_loss_pips,
                     a.pip_value, a.existing_positions, a.margin_rate)

InitRisk ==
    /\ data = << >>
    /\ instrument = "EUR_USD"
    /\ granularity = 1
    /\ initial_balance = 10000 * Money
    /\ max_positions = 1
    /\ use_realistic_costs = TRUE
    /\ enable_risk_management = TRUE
    /\ risk_manager \in RiskLimits
    /\ strategy_func \in {f \in Strategies : f.action = "NONE" /\ f.raises_at = 0}
    /\ time_limit_hours = 0
    /\ max_hold_bars = 100
    /\ current_balance = initial_balance
    /\ trades = << >>
    /\ open_positions = << >>
    /\ equity_curve = << >>
    /\ pc = "risk"
    /\ i = 0
    /\ snapshot = << >>
    /\ k = 0
    /\ validation = NoValidation
    /\ results = NoResults
    /\ raised = ""
    /\ next_id = 1
    /\ run_no = 0
    /\ previous = NoResults
    /\ rm_args = NoArgs
    /\ raw = << >>
    /\ cost_call = NoArgs
    /\ strategy_call = NoCall
    /\ PoIdle
    /\ WalkIdle

ValidateCall(a) ==
    /\ pc = "risk"
    /\ rm_args' = a
    /\ validation' = Validate(risk_manager, a)
    /\ UNCHANGED << data, config, current_balance, trades, open_positions,
                    equity_curve, pc, i, snapshot, k, results, raised,
                    next_id, run_no, previous, aux >>

NextRisk == \E a \in RiskArgs : ValidateCall(a)

SpecRisk == InitRisk /\ [][NextRisk]_vars

\* ------------------------------------------- the two loaders, then run
\* Rows as a file or the broker hands them over: any order, timestamps may
\* repeat.
MaxRows  == 3
RowTimes == {0, 1, 2}
RowShapes ==
    { [bid_low |-> MID, bid_close |-> MID, bid_high |-> MID],
      [bid_low |-> LO,  bid_close |-> MID, bid_high |-> MID] }

RowSet == { Candle("EUR_USD", t, sh) : t \in RowTimes, sh \in RowShapes }

RawInputs == UNION { [1..n -> RowSet] : n \in 1..MaxRows }

NonDecreasing(rows) ==
    \A n \in 1..(Len(rows) - 1) : rows[n].time <= rows[n + 1].time

\* sort_values('time') with the default, unstable sort kind: the rows in
\* time order, rows of equal time in any order
SortValues(rows) ==
    LET idx   == 1..Len(rows)
        perms == { perm \in [idx -> idx] :
                      \A a, b \in idx : perm[a] = perm[b] => a = b }
    IN { sorted \in { [a \in idx |-> rows[perm[a]]] : perm \in perms } :
            NonDecreasing(sorted) }

\* load_csv_data: read, sort by time, reindex
LoadCsvData(rows) ==
    /\ pc = "init"
    /\ data = << >>
    /\ raw = << >>
    /\ raw' = rows
    /\ data' \in SortValues(rows)
    /\ UNCHANGED << config, current_balance, trades, open_positions,
                    equity_curve, pc, i, snapshot, k, validation, results,
                    raised, next_id, run_no, previous, rm_args, cost_call, walk,
                    strategy_call, po >>

\* load_oanda_data: the candles in the order of the responses
LoadOandaData(rows) ==
    /\ pc = "init"
    /\ data = << >>
    /\ raw = << >>
    /\ raw' = rows
    /\ data' = rows
    /\ UNCHANGED << config, current_balance, trades, open_positions,
                    equity_curve, pc, i, snapshot, k, validation, results,
                    raised, next_id, run_no, previous, rm_args, cost_call, walk,
                    strategy_call, po >>

InitLoad ==
    /\ Init
    /\ granularity = 1
    /\ max_positions = 1
    /\ use_realistic_costs
    /\ ~enable_risk_management
    /\ time_limit_hours = 0
    /\ \/ strategy_func.units = 1 /\ strategy_func.has_stops
       \/ strategy_func.action = "NONE" /\ strategy_func.raises_at = 2

NextLoad ==
    \/ \E rows \in RawInputs : LoadCsvData(rows)
    \/ \E rows \in RawInputs : LoadOandaData(rows)
    \/ RunNoData
    \/ RunStart
    \/ BarStart
    \/ UpdatePosition
    \/ SkipSignal
    \/ StrategyRaises
    \/ NoSignal
    \/ OpenPosition
    \/ RecordEquity
    \/ LoopEnd
    \/ EndClose
    \/ Finish

SpecLoad == InitLoad /\ [][NextLoad]_vars

\* ----------------------------- calculate_trade_costs called on its own
CostInstruments == DOMAIN COST_PROFILES \cup {"XAU_USD"}

CostArgs ==
    [ called : {TRUE},
      instrument : CostInstruments,
      units : {-2, -1, 0, 1, 3},
      hold_days : {0, 1, 7},
      market_condition : MarketConditions \cup {"closed"},
      include_slippage : BOOLEAN ]

InitCosts ==
    /\ data = << >>
    /\ instrument = "EUR_USD"
    /\ granularity = 1
    /\ initial_balance = 10000 * Money
    /\ max_positions = 1
    /\ use_realistic_costs = TRUE
    /\ enable_risk_management = TRUE
    /\ risk_manager = DefaultRiskManager(1)
    /\ strategy_func \in {f \in Strategies : f.action = "NONE" /\ f.raises_at = 0}
    /\ time_limit_hours = 0
    /\ max_hold_bars = 100
    /\ current_balance = initial_balance
    /\ trades = << >>
    /\ open_positions = << >>
    /\ equity_curve = << >>
    /\ pc = "costs"
    /\ i = 0
    /\ snapshot = << >>
    /\ k = 0
    /\ validation = NoValidation
    /\ results = NoResults
    /\ raised = ""
    /\ next_id = 1
    /\ run_no = 0
    /\ previous = NoResults
    /\ rm_args = NoArgs
    /\ raw = << >>
    /\ cost_call = NoArgs
    /\ strategy_call = NoCall
    /\ PoIdle
    /\ WalkIdle

\* one call: the arguments, the exception that left it ("" if none) and
\* the dictionary it returned
CalculateCall(a) ==
    /\ pc = "costs"
    /\ cost_call' = [ args |-> a, called |-> TRUE, raised |-> "",
                      result |-> CalculateTradeCosts(a.instrument, a.units,
                                     a.hold_days, a.market_condition,
                                     a.include_slippage) ]
    /\ UNCHANGED << data, config, current_balance, trades, open_positions,
                    equity_curve, pc, i, snapshot, k, validation, results,
                    raised, next_id, run_no, previous, rm_args, raw, walk,
                    strategy_call, po >>

NextCosts == \E a \in CostArgs : CalculateCall(a)

SpecCosts == InitCosts /\ [][NextCosts]_vars

\* ------------------------------------------- walk_forward_optimizer.py
\* Time is counted in months; the data holds one bar per month, at the
\* months 0 .. MaxMonths - 1.  A grid entry is known by its index in
\* param_grid.
MaxMonths == 7
GridSize  == 3

engine == << data, config, current_balance, trades, open_positions,
             equity_curve, i, snapshot, k, validation, results, raised,
             next_id, run_no, previous, rm_args, strategy_call >>

DataTimes == 0..(MaxMonths - 1)

Min(a, b) == IF a < b THEN a ELSE b
Max(a, b) == IF a > b THEN a ELSE b

\* the BacktestResult backtest_params builds in its except branch
FailureResult ==
    [ total_return |-> -100, win_rate |-> 0, sharpe_ratio |-> -10,
      profit_factor |-> 0, total_trades |-> 0 ]

\* What backtest_params can return: total_return in percent, win_rate in
\* percent, sharpe_ratio and profit_factor in units.  The last one is the
\* result built when the backtest raised.
BacktestOutcomes ==
    { [total_return |-> 0,    win_rate |-> 0,  sharpe_ratio |-> 0,
       profit_factor |-> 0, total_trades |-> 0],
      [total_return |-> -10,  win_rate |-> 30, sharpe_ratio |-> -1,
       profit_factor |-> 0, total_trades |-> 30],
      [total_return |-> 10,   win_rate |-> 60, sharpe_ratio |-> 1,
       profit_factor |-> 2, total_trades |-> 30],
      [total_return |-> 10,   win_rate |-> 60, sharpe_ratio |-> 1,
       profit_factor |-> 2, total_trades |-> 5],
      [total_return |-> -100, win_rate |-> 0,  sharpe_ratio |-> -10,
       profit_factor |-> 0, total_trades |-> 0] }

\* what the out-of-sample backtest returns: trades, or none
TestOutcomes == { r \in BacktestOutcomes : r.total_return \in {10, 0, -100} /\ r.total_trades # 5 }

\* BacktestResult.fitness_score, in 1/1000
FitnessScore(r) ==
    LET return_score   == Min(Max(r.total_return, -50), 50) + 50
        sharpe_score   == Min(Max(r.sharpe_ratio, -2), 3) * 20
        win_rate_score == r.win_rate
        pf_score       == Min(r.profit_factor, 3) * 3333
    IN return_score * 300 + sharpe_score * 300 + win_rate_score * 200
       + pf_score * 2

RECURSIVE WindowsFrom(_, _, _)
\* the loop of create_windows from current_start on
WindowsFrom(current_start, window_id, o) ==
    LET train_start == current_start
        train_end   == train_start + o.train_months
        test_start  == train_end
        test_end    == test_start + o.test_months
        data_end    == MaxMonths - 1
    IN IF test_end > data_end THEN << >>
       ELSE << [ window_id |-> window_id,
                 train_start |-> train_start, train_end |-> train_end,
                 test_start |-> test_start, test_end |-> test_end ] >>
            \o WindowsFrom(current_start + o.step_months, window_id + 1, o)

\* the end of the training window belongs to the slice
TrainSliceInclusive(window) ==
    { t \in DataTimes : t >= window.train_start /\ t <= window.train_end }

\* self.data[(time >= train_start) & (time < train_end)]
TrainSlice(window) ==
    { t \in DataTimes : t >= window.train_start /\ t < window.train_end }

\* self.data[(time >= test_start) & (time < test_end)]
TestSlice(window) ==
    { t \in DataTimes : t >= window.test_start /\ t < window.test_end }

\* a tie replaces the best so far
BetterOrEqual(fitness, best) == ~best.set \/ fitness >= best.fitness

\* fitness > best_fitness, best_fitness starting at -inf
Better(fitness, best) == ~best.set \/ fitness > best.fitness

\* WalkForwardOptimizer.__init__ and the outcome of every training backtest
InitWalk ==
    /\ data = << >>
    /\ instrument = "EUR_USD"
    /\ granularity = 1
    /\ initial_balance = 10000 * Money
    /\ max_positions = 2
    /\ use_realistic_costs = TRUE
    /\ enable_risk_management = TRUE
    /\ risk_manager = DefaultRiskManager(1)
    /\ strategy_func \in {f \in Strategies : f.action = "NONE" /\ f.raises_at = 0}
    /\ time_limit_hours = 0
    /\ max_hold_bars = 100
    /\ current_balance = initial_balance
    /\ trades = << >>
    /\ open_positions = << >>
    /\ equity_curve = << >>
    /\ pc = "wf_init"
    /\ i = 0
    /\ snapshot = << >>
    /\ k = 0
    /\ validation = NoValidation
    /\ results = NoResults
    /\ raised = ""
    /\ next_id = 1
    /\ run_no = 0
    /\ previous = NoResults
    /\ rm_args = NoArgs
    /\ raw = << >>
    /\ cost_call = NoArgs
    /\ strategy_call = NoCall
    /\ PoIdle
    /\ optimizer \in [ called : {TRUE}, train_months : {1, 2},
                       test_months : {1}, step_months : {1, 2} ]
    /\ perf \in [1..GridSize -> BacktestOutcomes]
    /\ windows = << >>
    /\ window_no = 0
    /\ grid_i = 0
    /\ best_result = NoBest
    /\ train_data = {}
    /\ test_data = {}
    /\ wf_results = << >>
    /\ grid_search = NoArgs
    /\ analysis = NoArgs

\* run_optimization up to its loop: create_windows
CreateWindows ==
    /\ pc = "wf_init"
    /\ windows' = WindowsFrom(0, 1, optimizer)
    /\ window_no' = 1
    /\ pc' = IF windows' = << >> THEN "wf_done" ELSE "wf_window"
    /\ UNCHANGED << engine, raw, cost_call, po, analysis, optimizer, perf, grid_i,
                    best_result, train_data, test_data, wf_results,
                    grid_search >>

\* optimize_window up to its loop: the training slice is taken
OptimizeWindow ==
    /\ pc = "wf_window"
    /\ train_data' = TrainSlice(windows[window_no])
    /\ test_data' = {}
    /\ best_result' = NoBest
    /\ grid_i' = 1
    /\ pc' = "wf_grid"
    /\ UNCHANGED << engine, raw, cost_call, po, analysis, optimizer, perf, windows,
                    window_no, wf_results, grid_search >>

\* one iteration of the loop over param_grid
BacktestTrain ==
    /\ pc = "wf_grid"
    /\ LET result  == perf[grid_i]
           fitness == FitnessScore(result)
       IN best_result' = IF Better(fitness, best_result)
                         THEN [ set |-> TRUE, params |-> grid_i,
                                fitness |-> fitness, result |-> result ]
                         ELSE best_result
    /\ grid_i' = grid_i + 1
    /\ pc' = IF grid_i = GridSize THEN "wf_test" ELSE "wf_grid"
    /\ UNCHANGED << engine, raw, cost_call, po, analysis, optimizer, perf, windows,
                    window_no, train_data, test_data, wf_results,
                    grid_search >>

\* the out-of-sample run with the best parameters; the window is updated
\* and the loop of run_optimization goes to the next window
OutOfSample(test_result) ==
    /\ pc = "wf_test"
    /\ test_data' = TestSlice(windows[window_no])
    /\ wf_results' = Append(wf_results,
           [ window_id |-> windows[window_no].window_id,
             best_params |-> best_result.params,
             train_result |-> best_result.result,
             test_result |-> test_result,
             train_bars |-> train_data, test_bars |-> test_data' ])
    /\ window_no' = window_no + 1
    /\ pc' = IF window_no = Len(windows) THEN "wf_done" ELSE "wf_window"
    /\ UNCHANGED << engine, raw, cost_call, po, analysis, optimizer, perf, windows,
                    grid_i, best_result, train_data, grid_search >>

\* ---------------------------------------------------- analyze_results
RECURSIVE SumSeq(_)
\* np.sum
SumSeq(xs) == IF xs = << >> THEN 0 ELSE Head(xs) + SumSeq(Tail(xs))

RECURSIVE SumSquares(_)
SumSquares(xs) ==
    IF xs = << >> THEN 0 ELSE Head(xs) * Head(xs) + SumSquares(Tail(xs))

\* the k-th smallest value of the list
OrderStatistic(xs, kth) ==
    CHOOSE v \in {xs[j] : j \in 1..Len(xs)} :
        /\ Cardinality({j \in 1..Len(xs) : xs[j] < v}) < kth
        /\ Cardinality({j \in 1..Len(xs) : xs[j] <= v}) >= kth

\* np.median, times two
Median2(xs) ==
    LET n == Len(xs)
    IN IF n % 2 = 1 THEN 2 * OrderStatistic(xs, (n + 1) \div 2)
       ELSE OrderStatistic(xs, n \div 2) + OrderStatistic(xs, n \div 2 + 1)

\* robust from 60% on
VerdictRobustAtSixty(positive_windows, total) ==
    IF positive_windows * 100 >= 60 * total THEN "ROBUST"
    ELSE IF positive_windows * 100 > 40 * total THEN "MODERATE"
    ELSE "UNSTABLE"

\* consistency = positive_windows / len(oos_returns) * 100; the message
\* logged for it (the float product equals the exact one for every count
\* of windows below 200)
Verdict(positive_windows, total) ==
    IF positive_windows * 100 > 60 * total THEN "ROBUST"
    ELSE IF positive_windows * 100 > 40 * total THEN "MODERATE"
    ELSE "UNSTABLE"

\* what analyze_results reports of self.results: the sums behind the means
\* and deviations, the median, the positive windows and the verdict
Analyze(rs) ==
    LET oos_returns == [j \in 1..Len(rs) |-> rs[j].test_result.total_return]
        oos_trades  == [j \in 1..Len(rs) |-> rs[j].test_result.total_trades]
        positive_windows == Cardinality({j \in 1..Len(rs) : oos_returns[j] > 0})
    IN IF rs = << >> THEN [ called |-> TRUE, analyzed |-> FALSE ]
       ELSE [ called |-> TRUE, analyzed |-> TRUE,
              windows_tested   |-> Len(rs),
              sum_return       |-> SumSeq(oos_returns),
              median2_return   |-> Median2(oos_returns),
              sum_sq_return    |-> SumSquares(oos_returns),
              total_trades     |-> SumSeq(oos_trades),
              sum_best_params  |-> SumSeq([j \in 1..Len(rs) |-> rs[j].best_params]),
              positive_windows |-> positive_windows,
              verdict |-> Verdict(positive_windows, Len(rs)) ]

\* analyze_results after run_optimization
AnalyzeResults ==
    /\ pc = "wf_done"
    /\ analysis = NoArgs
    /\ analysis' = Analyze(wf_results)
    /\ UNCHANGED << engine, pc, raw, cost_call, po, optimizer, perf, windows,
                    window_no, grid_i, best_result, train_data, test_data,
                    wf_results, grid_search >>

\* ------------------------------------------------ parameter_optimizer.py
\* the trade count below which _grid_search drops a result
MIN_TRADES == 10

RECURSIVE MaxByMetric(_, _, _)
\* max(valid_results, key=metric): the first of the largest
MaxByMetric(valid, best, table) ==
    IF valid = << >> THEN best
    ELSE MaxByMetric(Tail(valid),
                     IF table[Head(valid)].sharpe_ratio
                            > table[best].sharpe_ratio
                     THEN Head(valid) ELSE best,
                     table)

\* _grid_search with metric = "sharpe_ratio"; best_params 0 stands for None
GridSearchResult(table) ==
    LET all   == [p \in 1..GridSize |-> p]
        Valid(p) == table[p].total_trades >= MIN_TRADES
        valid_results == SelectSeq(all, Valid)
    IN IF valid_results = << >>
       THEN [ called |-> TRUE, best_params |-> 0, best_score |-> 0 ]
       ELSE LET best == MaxByMetric(Tail(valid_results),
                                    Head(valid_results), table)
            IN [ called |-> TRUE, best_params |-> best,
                 best_score |-> table[best].sharpe_ratio ]

\* one call of _grid_search on the same grid and outcomes
GridSearch ==
    /\ pc = "wf_done"
    /\ grid_search = NoArgs
    /\ grid_search' = GridSearchResult(perf)
    /\ UNCHANGED << engine, pc, raw, cost_call, po, analysis, optimizer, perf, windows,
                    window_no, grid_i, best_result, train_data, test_data,
                    wf_results >>

NextWalk ==
    \/ CreateWindows
    \/ OptimizeWindow
    \/ BacktestTrain
    \/ \E test_result \in TestOutcomes : OutOfSample(test_result)
    \/ GridSearch
    \/ AnalyzeResults

SpecWalk == InitWalk /\ [][NextWalk]_vars

\* ------------------------------------------- ParameterOptimizer.optimize
\* Days are counted from start_date; a date is the midnight that begins it.
MaxDays    == 10
MaxJournal == 3

\* Journal rows: rows with the same exit_time, confidence and result are
\* held as one record with their count.  High-confidence trades won.
Batches ==
    { [ exit_time |-> t, overall_confidence |-> c, count |-> 20,
        net_pips |-> IF c >= 70 THEN 5 ELSE -5 ] :
          t \in 0..MaxDays, c \in {60, 80} }

RECURSIVE JournalsUpTo(_)
\* the journals of at most n records
JournalsUpTo(n) ==
    IF n = 0 THEN { {} }
    ELSE LET smaller == JournalsUpTo(n - 1)
         IN smaller \cup { J \cup {b} : J \in smaller, b \in Batches }

Journals == JournalsUpTo(MaxJournal)

\* BacktestResult(parameters=params, start_date=..., end_date=...)
EmptyResult(params) ==
    [ parameters |-> params, total_trades |-> 0, winning_trades |-> 0,
      losing_trades |-> 0, win_rate |-> 0, profit_factor |-> 0, rows |-> {} ]

RECURSIVE CountRows(_)
\* len(df)
CountRows(rows) ==
    IF rows = {} THEN 0
    ELSE LET b == CHOOSE x \in rows : TRUE
         IN b.count + CountRows(rows \ {b})

\* _filter_trades_by_params: overall_confidence >= params.min_confidence
FilterTradesByParams(df, params) ==
    { b \in df : b.overall_confidence >= params }

\* _calculate_performance: the counts, win_rate in 1/1000 and profit_factor
\* in 1/1000 with every trade winning or losing the same amount; rows are
\* the journal rows the figures were computed from
CalculatePerformance(df, params) ==
    IF df = {} THEN EmptyResult(params)
    ELSE LET total_trades   == CountRows(df)
             winning_trades == CountRows({b \in df : b.net_pips > 0})
             losing_trades  == CountRows({b \in df : b.net_pips < 0})
         IN [ parameters |-> params, total_trades |-> total_trades,
              winning_trades |-> winning_trades,
              losing_trades |-> losing_trades,
              win_rate |-> (winning_trades * 1000) \div total_trades,
              profit_factor |-> IF losing_trades > 0
                                THEN (winning_trades * 1000) \div losing_trades
                                ELSE 0,
              rows |-> df ]

\* the query takes both ends of the range out of the range
BacktestWithParamsHalfOpen(rows, start_date, end_date, params) ==
    LET df == { b \in rows : b.exit_time >= start_date
                             /\ b.exit_time < end_date }
    IN IF df = {} THEN EmptyResult(params)
       ELSE CalculatePerformance(FilterTradesByParams(df, params), params)

\* _backtest_with_params: exit_time >= start AND exit_time <= end
BacktestWithParams(rows, start_date, end_date, params) ==
    LET df == { b \in rows : b.exit_time >= start_date
                             /\ b.exit_time <= end_date }
    IN IF df = {} THEN EmptyResult(params)
       ELSE CalculatePerformance(FilterTradesByParams(df, params), params)

RECURSIVE MaxByWinRate(_, _)
\* max(valid_results, key=win_rate): the first of the largest
MaxByWinRate(valid, best) ==
    IF valid = << >> THEN best
    ELSE MaxByWinRate(Tail(valid),
             IF Head(valid).winning_trades * best.total_trades
                    > best.winning_trades * Head(valid).total_trades
             THEN Head(valid) ELSE best)

\* _grid_search with metric = "win_rate"; found FALSE stands for
\* best_params None
PoGridSearch(rows, start_date, end_date, param_combinations) ==
    LET rs == [j \in 1..Len(param_combinations) |->
                       BacktestWithParams(rows, start_date, end_date,
                                          param_combinations[j])]
        Valid(r) == r.total_trades >= MIN_TRADES
        valid_results == SelectSeq(rs, Valid)
    IN IF valid_results = << >>
       THEN [ found |-> FALSE, best_params |-> 0, best_score |-> 0,
              results |-> rs ]
       ELSE LET best == MaxByWinRate(Tail(valid_results),
                                            Head(valid_results))
            IN [ found |-> TRUE, best_params |-> best.parameters,
                 best_score |-> best.win_rate, results |-> rs ]

\* the test window starts the day after the training window ends
PoWindowsWithGap(start, end, num_periods) ==
    LET total_days  == end - start
        period_days == total_days \div num_periods
        train_days  == (period_days * 7) \div 10
        test_days   == period_days - train_days
    IN [ j \in 1..num_periods |->
           LET train_start == start + (j - 1) * period_days
               train_end   == train_start + train_days
               test_start  == train_end + 1
               test_end    == test_start + test_days
           IN [ train_start |-> train_start, train_end |-> train_end,
                test_start |-> test_start, test_end |-> test_end ] ]

\* _create_walk_forward_windows; int(period_days * 0.7) is the integer
\* quotient for every period shorter than 90 days
PoWindows(start, end, num_periods) ==
    LET total_days  == end - start
        period_days == total_days \div num_periods
        train_days  == (period_days * 7) \div 10
        test_days   == period_days - train_days
    IN [ j \in 1..num_periods |->
           LET train_start == start + (j - 1) * period_days
               train_end   == train_start + train_days
               test_start  == train_end
               test_end    == test_start + test_days
           IN [ train_start |-> train_start, train_end |-> train_end,
                test_start |-> test_start,
                test_end |-> IF test_end > end THEN end ELSE test_end ] ]

\* the parameters of the best test score
AggregateParametersBestScore(rs) ==
    LET best == CHOOSE j \in 1..Len(rs) :
                   \A m \in 1..Len(rs) :
                      rs[j].test_score >= rs[m].test_score
    IN rs[best].best_params

\* _aggregate_parameters: the most recent period's best parameters
AggregateParameters(rs) == rs[Len(rs)].best_params

\* the first period stands for all
AggregatePerformanceFirst(rs) ==
    [ avg_metric_sum        |-> rs[1].test_score,
      avg_win_rate_sum      |-> rs[1].test_result.win_rate,
      avg_profit_factor_sum |-> rs[1].test_result.profit_factor,
      total_test_trades     |-> rs[1].test_result.total_trades,
      consistency_sum_sq    |-> rs[1].test_score * rs[1].test_score,
      num_periods           |-> 1 ]

\* _aggregate_performance: the sums behind the means and the deviation
AggregatePerformance(rs) ==
    LET n == Len(rs)
    IN [ avg_metric_sum        |-> SumSeq([j \in 1..n |-> rs[j].test_score]),
         avg_win_rate_sum      |-> SumSeq([j \in 1..n |-> rs[j].test_result.win_rate]),
         avg_profit_factor_sum |-> SumSeq([j \in 1..n |-> rs[j].test_result.profit_factor]),
         total_test_trades     |-> SumSeq([j \in 1..n |-> rs[j].test_result.total_trades]),
         consistency_sum_sq    |-> SumSquares([j \in 1..n |-> rs[j].test_score]),
         num_periods           |-> n ]

\* ParameterOptimizer(trade_journal) and the arguments of optimize
InitOpt ==
    /\ data = << >>
    /\ instrument = "EUR_USD"
    /\ granularity = 1
    /\ initial_balance = 10000 * Money
    /\ max_positions = 2
    /\ use_realistic_costs = TRUE
    /\ enable_risk_management = TRUE
    /\ risk_manager = DefaultRiskManager(1)
    /\ strategy_func \in {f \in Strategies : f.action = "NONE" /\ f.raises_at = 0}
    /\ time_limit_hours = 0
    /\ max_hold_bars = 100
    /\ current_balance = initial_balance
    /\ trades = << >>
    /\ open_positions = << >>
    /\ equity_curve = << >>
    /\ pc = "po_init"
    /\ i = 0
    /\ snapshot = << >>
    /\ k = 0
    /\ validation = NoValidation
    /\ results = NoResults
    /\ raised = ""
    /\ next_id = 1
    /\ run_no = 0
    /\ previous = NoResults
    /\ rm_args = NoArgs
    /\ raw = << >>
    /\ cost_call = NoArgs
    /\ strategy_call = NoCall
    /\ WalkIdle
    /\ journal \in Journals
    /\ po_args \in [ called : {TRUE}, start_date : {0}, end_date : {MaxDays},
                     walk_forward_periods : {1, 2, 3},
                     param_combinations : { << 0, 70 >>, << 70, 0 >> },
                     min_trades_per_period : {20} ]
    /\ po_windows = << >>
    /\ period_no = 0
    /\ period_results = << >>
    /\ po_output = NoArgs

\* optimize up to its loop
CreateWalkForwardWindows ==
    /\ pc = "po_init"
    /\ po_windows' = PoWindows(po_args.start_date, po_args.end_date,
                               po_args.walk_forward_periods)
    /\ period_no' = 1
    /\ pc' = "po_period"
    /\ UNCHANGED << engine, raw, cost_call, walk, journal, po_args,
                    period_results, po_output >>

\* one iteration of the loop of optimize: grid search on the training
\* window, then the best parameters on the test window
OptimizePeriod ==
    /\ pc = "po_period"
    /\ LET w      == po_windows[period_no]
           search == PoGridSearch(journal, w.train_start, w.train_end,
                                  po_args.param_combinations)
           test_result == BacktestWithParams(journal, w.test_start,
                              w.test_end, search.best_params)
       IN period_results' =
            IF ~search.found THEN period_results
            ELSE IF test_result.total_trades < po_args.min_trades_per_period
            THEN period_results
            ELSE Append(period_results,
                   [ period |-> period_no,
                     train_start |-> w.train_start, train_end |-> w.train_end,
                     test_start |-> w.test_start, test_end |-> w.test_end,
                     best_params |-> search.best_params,
                     train_score |-> search.best_score,
                     train_rows |-> UNION { search.results[j].rows :
                                            j \in 1..Len(search.results) },
                     test_result |-> test_result,
                     test_score |-> test_result.win_rate ])
    /\ period_no' = period_no + 1
    /\ pc' = IF period_no = Len(po_windows) THEN "po_aggregate" ELSE "po_period"
    /\ UNCHANGED << engine, raw, cost_call, walk, journal, po_args,
                    po_windows, po_output >>

\* no period produced a result
OptimizeRaises ==
    /\ pc = "po_aggregate"
    /\ period_results = << >>
    /\ po_output' = [ called |-> TRUE, raised |-> "ValueError" ]
    /\ pc' = "po_raised"
    /\ UNCHANGED << engine, raw, cost_call, walk, journal, po_args,
                    po_windows, period_no, period_results >>

\* the aggregation and the return of optimize
OptimizeReturns ==
    /\ pc = "po_aggregate"
    /\ period_results # << >>
    /\ po_output' = [ called |-> TRUE, raised |-> "",
                      final_params |-> AggregateParameters(period_results),
                      final_performance |->
                          AggregatePerformance(period_results) ]
    /\ pc' = "po_done"
    /\ UNCHANGED << engine, raw, cost_call, walk, journal, po_args,
                    po_windows, period_no, period_results >>

NextOpt ==
    \/ CreateWalkForwardWindows
    \/ OptimizePeriod
    \/ OptimizeRaises
    \/ OptimizeReturns

SpecOpt == InitOpt /\ [][NextOpt]_vars

\* both optimizers
InitOptimizers == InitWalk \/ InitOpt


NextOptimizers == NextWalk \/ NextOpt

SpecOptimizers == InitOptimizers /\ [][NextOptimizers]_vars

\* both optimizers, the walk-forward one with two months of training that
\* step by one month and training backtests that trade
InitAggregate ==
    \/ /\ InitWalk
       /\ optimizer.train_months = 2
       /\ optimizer.step_months = 1
       /\ \A p \in 1..GridSize : perf[p].total_trades = 30
    \/ InitOpt

SpecAggregate == InitAggregate /\ [][NextOptimizers]_vars

\* ------------------------------------------- run with a short hold limit
\* run(strategy_func, time_limit_hours=None, max_hold_bars=1) on daily bars
InitHold ==
    /\ data = << >>
    /\ instrument \in Instruments
    /\ granularity = 1
    /\ initial_balance = 10000 * Money
    /\ max_positions \in {1, 2}
    /\ use_realistic_costs = TRUE
    /\ enable_risk_management = FALSE
    /\ risk_manager = DefaultRiskManager(1)
    /\ strategy_func \in Strategies
    /\ time_limit_hours = 0
    /\ max_hold_bars = 1
    /\ current_balance = initial_balance
    /\ trades = << >>
    /\ open_positions = << >>
    /\ equity_curve = << >>
    /\ pc = "init"
    /\ i = 0
    /\ snapshot = << >>
    /\ k = 0
    /\ validation = NoValidation
    /\ results = NoResults
    /\ raised = ""
    /\ next_id = 1
    /\ run_no = 0
    /\ previous = NoResults
    /\ rm_args = NoArgs
    /\ raw = << >>
    /\ cost_call = NoArgs
    /\ strategy_call = NoCall
    /\ PoIdle
    /\ WalkIdle

SpecHold == InitHold /\ [][Next]_vars

\* ------------------------------------------- run over a long history
\* more bars than the lookback of 100, all of them loaded before run
LongBars == 103

LongData(instr, shape) == [j \in 1..LongBars |-> Candle(instr, j - 1, shape)]

InitWindow ==
    /\ instrument \in Instruments
    /\ data \in {LongData(instrument, shape) : shape \in BarShapes}
    /\ granularity = 1
    /\ initial_balance = 10000 * Money
    /\ max_positions \in {1, 2}
    /\ use_realistic_costs = TRUE
    /\ enable_risk_management = FALSE
    /\ risk_manager = DefaultRiskManager(1)
    /\ strategy_func \in {f \in Strategies :
                            f.action = "NONE" \/ (f.units = 1 /\ f.has_stops)}
    /\ time_limit_hours = 48
    /\ max_hold_bars = 100
    /\ current_balance = initial_balance
    /\ trades = << >>
    /\ open_positions = << >>
    /\ equity_curve = << >>
    /\ pc = "init"
    /\ i = 0
    /\ snapshot = << >>
    /\ k = 0
    /\ validation = NoValidation
    /\ results = NoResults
    /\ raised = ""
    /\ next_id = 1
    /\ run_no = 0
    /\ previous = NoResults
    /\ rm_args = NoArgs
    /\ raw = << >>
    /\ cost_call = NoArgs
    /\ strategy_call = NoCall
    /\ PoIdle
    /\ WalkIdle

NextWindow ==
    \/ RunStart
    \/ BarStart
    \/ UpdatePosition
    \/ SkipSignal
    \/ StrategyRaises
    \/ NoSignal
    \/ OpenPosition
    \/ RecordEquity
    \/ LoopEnd
    \/ EndClose
    \/ Finish

SpecWindow == InitWindow /\ [][NextWindow]_vars

\* ================================================================ claims
Indices(seq) == 1..Len(seq)

TradeOf(id) == {n \in Indices(trades) : trades[n].pid = id}
OpenOf(id)  == {n \in Indices(open_positions) : open_positions[n].id = id}

\* the trade record carries the fields of the position it was built from
BuiltFrom(t, p) ==
    /\ t.pid = p.id
    /\ t.entry_time = p.entry_time /\ t.instrument = p.instrument
    /\ t.direction = p.direction /\ t.units = p.units
    /\ t.entry_price = p.entry_price /\ t.stop_loss = p.stop_loss
    /\ t.take_profit = p.take_profit

\* the list without its n-th element
Without(seq, n) == SubSeq(seq, 1, n - 1) \o SubSeq(seq, n + 1, Len(seq))

\* C1: during run the number of open positions never exceeds max_positions,
\* at every position of the loop (exit checks, entry attempt, equity point).
C1_MaxPositions == Len(open_positions) <= max_positions

C1_Witness ==
    /\ pc = "equity"
    /\ max_positions = 2
    /\ Len(open_positions) = 2

\* C2: every step that closes a position removes exactly that one position
\* from the open list and appends exactly one trade built from it; no
\* position has two trades, and positions opened = trades + open positions.
C2_Conservation ==
    /\ next_id - 1 = Len(trades) + Len(open_positions)
    /\ \A id \in 1..(next_id - 1) :
          Cardinality(TradeOf(id)) + Cardinality(OpenOf(id)) = 1

C2_CloseStep ==
    (trades' # trades /\ run_no' = run_no) =>
        /\ Len(trades') = Len(trades) + 1
        /\ SubSeq(trades', 1, Len(trades)) = trades
        /\ Len(open_positions') = Len(open_positions) - 1
        /\ \E n \in Indices(open_positions) :
              /\ BuiltFrom(trades'[Len(trades')], open_positions[n])
              /\ open_positions' = Without(open_positions, n)

C2_CloseExactlyOne == [][C2_CloseStep /\ C2_Conservation']_vars

C2_Witness ==
    /\ Len(trades) = 1
    /\ Len(open_positions) = 1
    /\ trades[1].pid = 1
    /\ open_positions[1].id = 2

\* C3: when run has finished no position is open; every position left open
\* by the last bar was closed with reason END at the closing price of the
\* final bar, and every position opened has exactly one trade.
C3_EndOfData ==
    pc = "done" =>
        /\ open_positions = << >>
        /\ \A id \in 1..(next_id - 1) : Cardinality(TradeOf(id)) = 1
        /\ \A n \in Indices(snapshot) :
              \E m \in Indices(trades) :
                 /\ BuiltFrom(trades[m], snapshot[n])
                 /\ trades[m].exit_reason = "END"
                 /\ trades[m].exit_bar = Len(data)
                 /\ trades[m].exit_time = data[Len(data)].time
                 /\ trades[m].exit_price =
                       IF snapshot[n].direction = "BUY"
                       THEN data[Len(data)].bid_close
                       ELSE data[Len(data)].ask_close
        /\ \A m \in Indices(trades) :
              trades[m].exit_reason = "END" =>
                 \E n \in Indices(snapshot) : snapshot[n].id = trades[m].pid

C3_Witness ==
    /\ pc = "done"
    /\ Len(snapshot) = 2
    /\ Len(trades) = 3

\* the positions that were already open when the current bar started
Carried ==
    IF pc \in {"signal", "equity"}
    THEN {n \in Indices(open_positions) : open_positions[n].entry_bar <= i}
    ELSE {}

StopTouched(x, c) ==
    IF x.direction = "BUY" THEN c.bid_low <= x.stop_loss
    ELSE c.ask_high >= x.stop_loss

TargetTouched(x, c) ==
    IF x.direction = "BUY" THEN c.bid_high >= x.take_profit
    ELSE c.ask_low <= x.take_profit

\* C4: an exception of the strategy function on a bar counts as "no
\* signal": positions, balance and trades stay as they are, the equity
\* point of the bar is recorded next and run goes on.
C4_StrategyErrorStep ==
    (pc = "signal" /\ HasCapacity /\ Signal.action = "RAISE") =>
        /\ pc' = "equity"
        /\ UNCHANGED << open_positions, current_balance, trades >>

C4_StrategyErrorIsNoSignal == [][C4_StrategyErrorStep]_vars

LongStoppedOut(t) ==
    /\ t.direction = "BUY" /\ t.units > 0
    /\ t.stop_loss < t.entry_price /\ t.entry_price < t.take_profit
    /\ t.exit_bar > t.entry_bar
    /\ data[t.exit_bar].bid_low <= t.stop_loss

\* no carried long position survives a bar whose bid low touches its stop
LongStopsClose ==
    \A n \in Carried :
       LET p == open_positions[n]
       IN (p.direction = "BUY" /\ p.units > 0 /\ p.stop_loss < p.entry_price
           /\ p.entry_price < p.take_profit)
          => ~(CurrentCandle.bid_low <= p.stop_loss)

\* C6: a long position whose stop is touched before its target closes with
\* the stop-loss reason and its net P&L is at most its gross P&L, for every
\* hold duration.
C6_NetNeverAboveGross ==
    /\ LongStopsClose
    /\ \A m \in Indices(trades) :
          LongStoppedOut(trades[m]) =>
             /\ trades[m].exit_reason = "SL"
             /\ trades[m].net_pnl <= trades[m].gross_pnl

\* C7: a bar that touches both the stop and the target of a position closes
\* it on that bar, once, with the stop-loss reason.
C7_StopBeforeTarget ==
    /\ \A n \in Carried :
          ~(StopTouched(open_positions[n], CurrentCandle)
            /\ TargetTouched(open_positions[n], CurrentCandle))
    /\ \A m \in Indices(trades) :
          LET t == trades[m]
          IN /\ Cardinality(TradeOf(t.pid)) = 1
             /\ (t.exit_bar > t.entry_bar
                 /\ StopTouched(t, data[t.exit_bar])
                 /\ TargetTouched(t, data[t.exit_bar]))
                => t.exit_reason = "SL"

C7_Witness ==
    \E m \in Indices(trades) :
       /\ trades[m].direction = "SELL"
       /\ trades[m].exit_bar > trades[m].entry_bar
       /\ data[trades[m].exit_bar].ask_high >= trades[m].stop_loss
       /\ data[trades[m].exit_bar].ask_low <= trades[m].take_profit
       /\ trades[m].exit_reason = "SL"

\* C8: the triggers are inclusive and read the closing side of the book:
\* a position that meets a bar is stopped iff bid_low <= stop (long) or
\* ask_high >= stop (short); it is closed at its target iff the stop is not
\* touched and bid_high >= target (long) or ask_low <= target (short).
C8_InclusiveTriggers ==
    /\ \A n \in Carried :
          /\ ~StopTouched(open_positions[n], CurrentCandle)
          /\ ~TargetTouched(open_positions[n], CurrentCandle)
    /\ \A m \in Indices(trades) :
          LET t == trades[m]
              c == data[t.exit_bar]
          IN /\ t.exit_reason = "SL" => StopTouched(t, c)
             /\ t.exit_reason = "TP" =>
                   TargetTouched(t, c) /\ ~StopTouched(t, c)
             /\ t.exit_reason = "TIME" =>
                   ~TargetTouched(t, c) /\ ~StopTouched(t, c)

C8_Witness ==
    \E m \in Indices(trades) :
       /\ trades[m].direction = "BUY"
       /\ trades[m].entry_price = 10850
       /\ trades[m].stop_loss = 10850 - StopDistance
       /\ data[trades[m].exit_bar].bid_low = trades[m].stop_loss
       /\ data[trades[m].exit_bar].ask_low > trades[m].stop_loss
       /\ trades[m].exit_reason = "SL"

\* C9: a second run on the same bars with the same arguments and strategy
\* returns the same results, trade log and equity curve as the first.
C9_RerunIdentical ==
    (pc = "done" /\ run_no = 2) =>
        /\ results = previous.results
        /\ trades = previous.trades
        /\ equity_curve = previous.equity_curve

C9_Witness ==
    /\ pc = "done"
    /\ run_no = 2
    /\ Len(trades) >= 2
    /\ results.final_balance # initial_balance

\* the four sub-checks and the risk figure of the recorded call
ArgValue == PositionValue(rm_args.instrument, rm_args.new_position_units,
                          rm_args.current_price)
ArgLeverage == CheckLeverage(risk_manager, rm_args.account_balance, ArgValue,
                             rm_args.existing_positions)
ArgRisk == CheckRiskPerTrade(risk_manager, rm_args.account_balance,
                             rm_args.new_position_units,
                             rm_args.stop_loss_pips, rm_args.pip_value)
ArgExposure == CheckTotalExposure(risk_manager, rm_args.account_balance,
                                  ArgValue, rm_args.existing_positions)
ArgMargin == CheckMarginRequirement(risk_manager, rm_args.account_balance,
                                    ArgValue, rm_args.existing_positions,
                                    rm_args.margin_rate)

AllowedOnlyIfAllPass ==
    validation.allowed =>
        /\ ArgLeverage.passed /\ ArgRisk.passed
        /\ ArgExposure.passed /\ ArgMargin.passed

\* the risk of the proposed position is 2.5 % of the balance, the limit 1 %
RiskIs2_5Limit1 ==
    /\ rm_args.account_balance > 0
    /\ rm_args.account_balance % 40 = 0
    /\ ArgRisk.max_loss = rm_args.account_balance \div 40
    /\ risk_manager.max_risk_per_trade = 1

\* C10 as stated: allowed only if all four sub-checks pass, and a position
\* risking 2.5 % under a 1 % limit is rejected with the risk-per-trade
\* reason.
C10_RiskReasonAlways ==
    rm_args.called =>
        /\ AllowedOnlyIfAllPass
        /\ RiskIs2_5Limit1 =>
              ~validation.allowed /\ validation.reason = RejectRisk

\* C10 amended: allowed only if all four sub-checks pass; a position risking
\* 2.5 % under a 1 % limit is rejected, with the risk-per-trade reason when
\* the leverage check passes and with the leverage reason when it fails.
C10_RiskReasonAfterLeverage ==
    rm_args.called =>
        /\ AllowedOnlyIfAllPass
        /\ RiskIs2_5Limit1 =>
              /\ ~validation.allowed
              /\ validation.reason =
                    IF ArgLeverage.passed THEN RejectRisk ELSE RejectLeverage

C10_Witness ==
    /\ rm_args.called
    /\ RiskIs2_5Limit1
    /\ ArgLeverage.passed
    /\ ~validation.allowed
    /\ validation.reason = RejectRisk

\* C11: when the Risk Gate rejects a signal the step opens nothing (open
\* positions, balance and trade log are unchanged) and goes on to the bar's
\* equity point; a run with a rejection ends with one equity point per bar.
GateRejects ==
    /\ pc = "signal"
    /\ HasCapacity
    /\ enable_risk_management
    /\ Signal.action \in {"BUY", "SELL"}
    /\ ~GateCall(Signal, CurrentCandle, current_balance, open_positions).allowed

C11_RejectStep ==
    GateRejects =>
        /\ open_positions' = open_positions
        /\ current_balance' = current_balance
        /\ trades' = trades
        /\ next_id' = next_id
        /\ pc' = "equity"

Rejected == validation.reason # "" /\ ~validation.allowed

C11_RunContinues ==
    (Rejected /\ pc \in {"end", "done"}) =>
        /\ raised = ""
        /\ i = Len(data)
        /\ Len(equity_curve) = Len(data) + 1
        /\ \A n \in Indices(data) : equity_curve[n + 1].time = data[n].time

C11_RejectOpensNothing == [][C11_RejectStep]_vars /\ []C11_RunContinues

C11_Witness ==
    /\ pc = "done"
    /\ Rejected
    /\ Len(data) >= 2
    /\ trades = << >>
    /\ results.returned

\* C12: validate_position runs leverage, per-trade risk, exposure, margin in
\* this order and stops at the first failure: the reason names the first
\* failing check and checks holds exactly the checks up to and including
\* it, the earlier ones passed, the last one failed.
CheckOrder == << "leverage", "risk_per_trade", "exposure", "margin" >>

ReasonOf == << RejectLeverage, RejectRisk, RejectExposure, RejectMargin >>

ArgPassed ==
    << ArgLeverage.passed, ArgRisk.passed, ArgExposure.passed,
       ArgMargin.passed >>

FirstFailing ==
    IF \A n \in 1..4 : ArgPassed[n] THEN 0
    ELSE CHOOSE n \in 1..4 :
            ~ArgPassed[n] /\ \A m \in 1..(n - 1) : ArgPassed[m]

C12_FirstFailureReported ==
    (rm_args.called /\ FirstFailing # 0) =>
        /\ ~validation.allowed
        /\ validation.reason = ReasonOf[FirstFailing]
        /\ DOMAIN validation.checks =
               {CheckOrder[m] : m \in 1..FirstFailing}
        /\ \A m \in 1..(FirstFailing - 1) : validation.checks[CheckOrder[m]]
        /\ ~validation.checks[CheckOrder[FirstFailing]]

C12_Witness ==
    /\ rm_args.called
    /\ FirstFailing = 3
    /\ ~ArgMargin.passed
    /\ validation.reason = RejectExposure

\* C13: the direction of a position comes from its direction field only:
\* the gross P&L of a closed SELL trade is positive exactly when the exit
\* price is below the entry price, and its swap is the short side's,
\* whatever the sign of the units the strategy supplied.
ShortSideCosts(t) ==
    CalculateTradeCosts(t.instrument, -Abs(t.units), t.hold_days,
                        "normal", TRUE).total_cost_usd

C13_DirectionFromField ==
    \A n \in Indices(trades) :
        trades[n].direction = "SELL" =>
            /\ (trades[n].gross_pnl > 0) <=>
                   (trades[n].exit_price < trades[n].entry_price)
            /\ use_realistic_costs => trades[n].costs = ShortSideCosts(trades[n])

\* C14: a series with a repeated or out-of-order timestamp, from either
\* loader, is never processed: run fails with a data error and returns
\* nothing.
StrictlyIncreasing(rows) ==
    \A n \in 1..(Len(rows) - 1) : rows[n].time < rows[n + 1].time

C14_BadOrderIsDataError ==
    (raw # << >> /\ ~StrictlyIncreasing(raw)) =>
        /\ pc \in {"init", "raised"}
        /\ pc = "raised" => raised = "DataError"
        /\ ~results.returned
        /\ equity_curve = << >>

\* C15: a cost calculation for an instrument without a cost profile fails
\* with a configuration error and returns no cost taken from another
\* instrument's profile.
C15_UnknownInstrumentFails ==
    (cost_call.called /\ cost_call.args.instrument \notin DOMAIN COST_PROFILES)
        => cost_call.raised = "ConfigurationError"

\* C16: for every built-in profile, market tier and position size the spread
\* cost and the slippage cost are each >= 0, so a negative total cost comes
\* with a negative swap component.
C16_SpreadSlippageNonNegative ==
    (cost_call.called /\ cost_call.args.instrument \in DOMAIN COST_PROFILES) =>
        /\ cost_call.result.spread_cost_usd >= 0
        /\ cost_call.result.slippage_cost_usd >= 0
        /\ cost_call.result.total_cost_usd < 0 =>
               cost_call.result.swap_cost_usd < 0

C16_Witness ==
    /\ cost_call.called
    /\ cost_call.args.instrument = "USD_JPY"
    /\ cost_call.args.units > 0
    /\ cost_call.args.market_condition = "quiet"
    /\ cost_call.result.spread_cost_usd > 0
    /\ cost_call.result.slippage_cost_usd > 0
    /\ cost_call.result.total_cost_usd < 0

\* C17: the margin sub-check passes exactly when
\* equity / (used_margin + new_margin) * 100 >= min_margin_level, with
\* equity = balance + unrealized P&L of the existing positions, for every
\* configured min_margin_level.
ArgEquity ==
    rm_args.account_balance + SumUnrealized(rm_args.existing_positions)

ArgTotalMargin ==
    SumMarginUsed(rm_args.existing_positions) + ArgValue * rm_args.margin_rate

MarginInequality ==
    /\ ArgEquity >= 0
    /\ FracGE(ArgEquity * 10, ArgTotalMargin,
              risk_manager.min_margin_level, 100)

C17_MarginIsLevelOnly ==
    (rm_args.called /\ "margin" \in DOMAIN validation.checks) =>
        (validation.checks["margin"] <=> MarginInequality)

\* C18: in every optimized window the bars of the train slice and the bars
\* of the test slice are disjoint, and the test slice is taken only after
\* the loop over the grid has fixed the best parameter set.
C18_TrainTestDisjoint ==
    /\ train_data \cap test_data = {}
    /\ test_data # {} => (grid_i > GridSize /\ best_result.set)
    /\ \A n \in Indices(wf_results) :
          wf_results[n].train_bars \cap wf_results[n].test_bars = {}

C18_Witness ==
    /\ Len(wf_results) >= 2
    /\ \A n \in Indices(wf_results) :
          wf_results[n].train_bars # {} /\ wf_results[n].test_bars # {}
    /\ wf_results[1].test_bars \cap wf_results[2].train_bars # {}

\* C19: the parameter set selected for a window made at least the minimum
\* number of trades on the train slice, in optimize_window and in
\* _grid_search; if no set is eligible nothing is selected.
Eligible == {p \in 1..GridSize : perf[p].total_trades >= MIN_TRADES}

C19_MinTradesSelected ==
    /\ \A n \in Indices(wf_results) :
          wf_results[n].train_result.total_trades >= MIN_TRADES
    /\ grid_search.called =>
          IF Eligible = {} THEN grid_search.best_params = 0
          ELSE grid_search.best_params \in Eligible

\* C20: on a tie at the best fitness the lowest grid index is selected, in
\* optimize_window (fitness_score) and in _grid_search (the metric, among
\* the eligible sets).
BestByFitness ==
    {p \in 1..GridSize :
        \A q \in 1..GridSize : FitnessScore(perf[q]) <= FitnessScore(perf[p])}

BestByMetric ==
    {p \in Eligible :
        \A q \in Eligible : perf[q].sharpe_ratio <= perf[p].sharpe_ratio}

Lowest(S) == CHOOSE p \in S : \A q \in S : p <= q

C20_LowestIndexOnTie ==
    /\ \A n \in Indices(wf_results) :
          wf_results[n].best_params = Lowest(BestByFitness)
    /\ (grid_search.called /\ Eligible # {}) =>
          grid_search.best_params = Lowest(BestByMetric)

C20_Witness ==
    /\ grid_search.called
    /\ wf_results # << >>
    /\ Cardinality(BestByFitness) >= 2
    /\ Cardinality(BestByMetric) >= 2
    /\ perf[1].total_trades < MIN_TRADES
    /\ grid_search.best_params = 2
    /\ wf_results[1].best_params = 1

\* C26: in every state of a run the balance is initial_balance plus the sum
\* of net_pnl over the trade log, every trade has net_pnl = gross_pnl -
\* costs, the returned final_balance is that sum, and a step changes the
\* balance only by closing a position.
RECURSIVE SumNet(_)
SumNet(ts) == IF ts = << >> THEN 0 ELSE Head(ts).net_pnl + SumNet(Tail(ts))

C26_BalanceIsSum ==
    /\ current_balance = initial_balance + SumNet(trades)
    /\ \A n \in Indices(trades) :
          trades[n].net_pnl = trades[n].gross_pnl - trades[n].costs
    /\ pc = "done" => results.final_balance = initial_balance + SumNet(trades)

C26_BalanceStep ==
    current_balance' # current_balance =>
        /\ Len(trades') = Len(trades) + 1
        /\ Len(open_positions') = Len(open_positions) - 1
        /\ current_balance' = current_balance + trades'[Len(trades')].net_pnl

C26_BalanceAccounting == []C26_BalanceIsSum /\ [][C26_BalanceStep]_vars

C26_Witness ==
    /\ pc = "done"
    /\ Len(trades) >= 2
    /\ \A n \in Indices(trades) : trades[n].costs > 0
    /\ \E n \in Indices(trades) : trades[n].gross_pnl # 0
    /\ results.final_balance # initial_balance

\* C27: a trade closed with the stop-loss reason is filled no better than
\* its stop (BUY: exit_price <= stop_loss, SELL: exit_price >= stop_loss), so
\* with the stop on the losing side of the entry its gross P&L is never
\* positive; a take-profit exit never has a negative gross P&L.
StopOnLosingSide(t) ==
    IF t.direction = "BUY" THEN t.units > 0 /\ t.stop_loss < t.entry_price
    ELSE t.units < 0 /\ t.stop_loss > t.entry_price

C27_StopFillNoBetter ==
    \A n \in Indices(trades) :
       LET t == trades[n]
       IN /\ t.exit_reason = "SL" =>
                /\ IF t.direction = "BUY" THEN t.exit_price <= t.stop_loss
                   ELSE t.exit_price >= t.stop_loss
                /\ StopOnLosingSide(t) => t.gross_pnl <= 0
          /\ (t.exit_reason = "TP" /\ StopOnLosingSide(t)) => t.gross_pnl >= 0

\* C25: a position opened on bar b is closed no later than bar
\* b + max_hold_bars, also when time_limit_hours is None and neither stop
\* nor target is touched.
C25_MaxHoldBars ==
    /\ \A n \in Indices(trades) :
          trades[n].exit_bar - trades[n].entry_bar <= max_hold_bars
    /\ pc = "equity" =>
          \A n \in Indices(open_positions) :
             (i + 1) - open_positions[n].entry_bar <= max_hold_bars

\* C30: on bar i the strategy is called at most once, only when fewer than
\* max_positions positions are open after the exit checks of the bar, and
\* it is handed exactly the bars max(0, i - 100) .. i: never a bar later
\* than i and never more than 101 bars.
C30_StrategyWindow ==
    /\ strategy_call.n <= 1
    /\ strategy_call.n = 1 =>
          LET b     == strategy_call.bar
              first == IF b - Lookback > 0 THEN b - Lookback ELSE 0
              rd    == strategy_call.recent_data
          IN /\ strategy_call.open < max_positions
             /\ Len(rd) = b - first + 1
             /\ Len(rd) <= Lookback + 1
             /\ \A n \in 1..Len(rd) : rd[n] = data[first + n]
             /\ \A n \in 1..Len(rd) : rd[n].time <= data[b + 1].time

\* the strategy was called on a bar past the lookback, with later bars loaded
C30_Witness ==
    /\ strategy_call.n = 1
    /\ strategy_call.bar > Lookback
    /\ strategy_call.bar + 1 < Len(data)
    /\ Len(strategy_call.recent_data) = Lookback + 1
    /\ max_positions = 2 /\ strategy_call.open = 1

\* gross loss _close_position would book for the signal's position if it
\* were closed at its stop, in 1/10000 USD
LossAtStop(signal, candle) ==
    LET entry_price == EntryPrice(signal, candle)
    IN -CalculatePnl(candle.instrument, entry_price,
                     EntryStop(signal, entry_price), signal.units).pnl

\* C28: the per-trade risk the engine submits to the Risk Gate equals the
\* gross loss the position would realise if it were closed at its stop, for
\* every position size.
C28_Step ==
    (/\ pc = "signal"
     /\ pc' = "equity"
     /\ enable_risk_management
     /\ HasCapacity
     /\ Signal.action \in {"BUY", "SELL"})
    => GateMaxLoss(Signal, CurrentCandle, current_balance)
         = LossAtStop(Signal, CurrentCandle)

C28_RiskIsLossAtStop == [][C28_Step]_vars

\* at one lot (10,000 units) the two figures agree
C28_StepOneLot ==
    (/\ pc = "signal"
     /\ pc' = "equity"
     /\ enable_risk_management
     /\ HasCapacity
     /\ Signal.action = "BUY"
     /\ Signal.units = 1)
    => GateMaxLoss(Signal, CurrentCandle, current_balance)
         = LossAtStop(Signal, CurrentCandle)
C28_OneLot == [][C28_StepOneLot]_vars

\* the failed runs are left out of the out-of-sample figures
AnalyzeWithoutFailures(rs) ==
    LET Ran(w) == w.test_result # FailureResult
        kept   == SelectSeq(rs, Ran)
        oos_returns == [j \in 1..Len(kept) |-> kept[j].test_result.total_return]
        oos_trades  == [j \in 1..Len(kept) |-> kept[j].test_result.total_trades]
        positive_windows == Cardinality({j \in 1..Len(kept) : oos_returns[j] > 0})
    IN IF kept = << >> THEN [ called |-> TRUE, analyzed |-> FALSE ]
       ELSE [ called |-> TRUE, analyzed |-> TRUE,
              windows_tested   |-> Len(kept),
              sum_return       |-> SumSeq(oos_returns),
              median2_return   |-> Median2(oos_returns),
              sum_sq_return    |-> SumSquares(oos_returns),
              total_trades     |-> SumSeq(oos_trades),
              sum_best_params  |-> SumSeq([j \in 1..Len(kept) |-> kept[j].best_params]),
              positive_windows |-> positive_windows,
              verdict |-> Verdict(positive_windows, Len(kept)) ]

PositiveWindows ==
    Cardinality({j \in 1..Len(wf_results) :
                    wf_results[j].test_result.total_return > 0})

\* C22 as stated: robust above 60%, moderate from 40% to 60% inclusive,
\* unstable below 40%; 2 positive windows of 5 are moderate.
C22_ClaimedBands ==
    (analysis.called /\ analysis.analyzed) =>
        LET n == Len(wf_results)
            c == PositiveWindows * 100
        IN analysis.verdict = IF c > 60 * n THEN "ROBUST"
                              ELSE IF c >= 40 * n THEN "MODERATE"
                              ELSE "UNSTABLE"

\* C22: analyze_results calls the consistency ratio robust above 60%,
\* moderate above 40% and up to 60% inclusive, and unstable at 40% or below;
\* 1 positive window of 3 is unstable, and so are exactly 2 of 5.
C22_Bands ==
    (analysis.called /\ analysis.analyzed) =>
        LET n == Len(wf_results)
            c == PositiveWindows * 100
        IN /\ (c > 60 * n) <=> (analysis.verdict = "ROBUST")
           /\ (c > 40 * n /\ c <= 60 * n) <=> (analysis.verdict = "MODERATE")
           /\ (c <= 40 * n) <=> (analysis.verdict = "UNSTABLE")
           /\ (n = 3 /\ PositiveWindows = 1) => analysis.verdict = "UNSTABLE"
           /\ (n = 5 /\ PositiveWindows = 2) => analysis.verdict = "UNSTABLE"

\* five windows analyzed, exactly two of them positive
C22_Witness ==
    /\ analysis.called /\ analysis.analyzed
    /\ Len(wf_results) = 5
    /\ PositiveWindows = 2
    /\ analysis.verdict = "UNSTABLE"

\* the permutations of 1..n, for every list length the optimizers produce
\* with a training window of two months or with three periods
PermutationTable ==
    [ n \in 0..(MaxMonths - 3) |->
        { perm \in [1..n -> 1..n] :
            \A a, b \in 1..n : perm[a] = perm[b] => a = b } ]

Permuted(rs) ==
    { [a \in 1..Len(rs) |-> rs[perm[a]]] : perm \in PermutationTable[Len(rs)] }

C24_WindowBounds ==
    /\ \A n \in 1..Len(windows) :
          /\ windows[n].train_end = windows[n].test_start
          /\ windows[n].test_end <= MaxMonths - 1
    /\ \A n \in 1..Len(po_windows) :
          /\ po_windows[n].train_end = po_windows[n].test_start
          /\ po_windows[n].test_end <= po_args.end_date

\* three periods were cut out of the range
C24_Witness ==
    /\ Len(po_windows) = 3
    /\ po_windows[1].train_end > po_windows[1].train_start
    /\ po_windows[3].test_end > po_windows[3].test_start

\* C29: in every period of optimize no journal trade is counted both in
\* the training evaluation and in the out-of-sample test evaluation, also
\* when its exit_time is exactly train_end = test_start.
C29_NoTradeInBoth ==
    \A n \in 1..Len(period_results) :
        period_results[n].train_rows
            \cap period_results[n].test_result.rows = {}

====
